---- MODULE Spec2Model ----
(***************************************************************************)
(* The auction / bid engine of the arena server: item auctions, hero lots, *)
(* bids with reserved-funds accounting through the ledger, hero generation *)
(* and the expiry sweeper, as concurrent database transactions that take   *)
(* row locks (SELECT ... FOR UPDATE) and commit atomically.                *)
(*                                                                         *)
(* Money is counted in half cents (1.00 = 200), so that Decimal.quantize   *)
(* to 0.01 is a real rounding; request schemas admit two decimals only     *)
(* (schemas/bid.py:8, schemas/auction.py:30,60,113, schemas/hero.py:70),   *)
(* so every input amount is an even number.                                *)
(*                                                                         *)
(* A transaction is a slot of txn.  Each action is one statement that can  *)
(* block on a row lock or that reads rows it has not locked, together with *)
(* the local work that follows it up to the next such statement; the       *)
(* writes of a transaction are applied to the tables when it commits, and  *)
(* a transaction that raises rolls back and leaves the tables as they were.*)
(***************************************************************************)
EXTENDS Integers, Sequences, FiniteSets, Bags, TLC

VARIABLES
    now,        \* datetime.utcnow(), in hours
    users,      \* users table: id -> [balance, reserved]
    ledger,     \* currency_transactions table: a bag of rows (id, created_at left out)
    stash,      \* stash table: user -> item -> quantity (0 = no row)
    auctions,   \* auctions table, in id order
    lots,       \* auction_lots table, in id order (deleted rows keep their id)
    bids,       \* bids table, in id order (deleted rows keep their id)
    autobids,   \* auto_bids table, in id order
    heroes,     \* heroes table, in id order
    txn,        \* the transactions in flight, one per session
    closeRuns,  \* history: how often the transfers of a close were committed
    ret,        \* what the operation that ended last returned or raised
    redis,      \* the lock key in Redis: [value, ttl], value 0 = key absent
    locks,      \* the DistributedLock objects: [acquired, pc]
    tokens,     \* the JWTs that clients can present
    refreshed,  \* history: the refresh tokens a refresh was granted for
    bus,        \* core/events.py: _subscribers, and the emit that is running
    sweeper,    \* the instances of close_expired_auctions_task: where each is
    cache       \* core/redis_cache.py: _client, and the keys the server holds

vars == <<now, users, ledger, stash, auctions, lots, bids, autobids, heroes,
          txn, closeRuns, ret, redis, locks, tokens, refreshed, bus, sweeper,
          cache>>

\* What the database operations leave alone: the lock service and the tokens.
lockVars == <<redis, locks>>
authVars == <<tokens, refreshed>>
taskVars == <<bus, sweeper, cache>>

(***************************************************************************)
(* Bounds of the model and inputs.                                         *)
(***************************************************************************)
MaxNow == 1
MaxAuctions == 1
MaxLots == 1
MaxBids == 2
MaxLedger == 4
MaxGenerated == 1
MaxRelist == 3

Users == {1, 2, 3}
Items == {1}
Txns == {1, 2}
Amounts == {200, 300}
StartPrices == {100}
Durations == {0, 1}
Quantities == {1, 2}
Currencies == {0, 2}

ACTIVE == "active"
FINISHED == "finished"
CANCELLED == "cancelled"

MAX_HEROES == 5
MAX_AUCTION_DURATION_HOURS == 24
HERO_COST_FACTOR == 100

(***************************************************************************)
(* Decimal arithmetic.                                                     *)
(***************************************************************************)
QuantizeMag(a) ==
    IF a % 2 = 0 THEN a
    ELSE IF (a \div 2) % 2 = 0 THEN 2 * (a \div 2) ELSE 2 * (a \div 2) + 2

\* Decimal.quantize(Decimal('0.01')) under the default ROUND_HALF_EVEN.
Quantize(x) == IF x < 0 THEN -QuantizeMag(-x) ELSE QuantizeMag(x)

Min(a, b) == IF a < b THEN a ELSE b

(***************************************************************************)
(* The tables as one value, threaded through the body of a transaction.    *)
(* ok = FALSE once a statement has raised; err names the exception, val the *)
(* id of the row the call returns, arg the argument that tells the request *)
(* from others: the request_id of a bid, the duration of a create; ev the   *)
(* cache calls the operation makes once its transaction block is left.     *)
(***************************************************************************)
DB == [users |-> users, ledger |-> ledger, stash |-> stash,
       auctions |-> auctions, lots |-> lots, bids |-> bids,
       autobids |-> autobids, heroes |-> heroes, closeRuns |-> closeRuns,
       ok |-> TRUE, err |-> "ok", val |-> 0, arg |-> 0, ev |-> <<>>]

Raise(db, e) == [db EXCEPT !.ok = FALSE, !.err = e]

Req(db, arg) == [db EXCEPT !.arg = arg]

\* emit("cache_invalidate", key) of core/events.py, and the direct call
\* redis_cache.delete(key).
CacheInvalidate(key) == <<"cache_invalidate", key>>
CacheDelete(key) == <<"cache_delete", key>>

\* A statement placed after the "async with self._txn()" block: an exception
\* raised inside the block skips it.
After(db, e) == IF db.ok THEN [db EXCEPT !.ev = Append(@, e)] ELSE db

(***************************************************************************)
(* accounting.py: AccountingService.adjust_balance.                        *)
(***************************************************************************)
LedgerRow(user_id, amount, tx_type, reference_id) ==
    [user_id |-> user_id, amount |-> Quantize(amount), type |-> tx_type,
     reference_id |-> reference_id]

\* A bug adjust_balance could have: a release is applied without its row.
AdjustBalanceUnrecorded(db, user_id, amount, tx_type, reference_id, field) ==
    IF ~db.ok THEN db
    ELSE IF user_id \notin DOMAIN db.users THEN Raise(db, "NOT_FOUND")
    ELSE IF field \notin {"balance", "reserved"} THEN Raise(db, "VALIDATION")
    ELSE LET new_val == Quantize(db.users[user_id][field] + amount) IN
         IF new_val < 0
         THEN Raise(db, IF field = "balance" THEN "INSUFFICIENT_FUNDS"
                                             ELSE "INVALID_RESERVED")
         ELSE IF amount < 0
         THEN [db EXCEPT !.users[user_id][field] = new_val]
         ELSE [db EXCEPT !.users[user_id][field] = new_val,
                         !.ledger = @ (+) SetToBag({LedgerRow(user_id, amount,
                                                               tx_type, reference_id)})]

AdjustBalance(db, user_id, amount, tx_type, reference_id, field) ==
    IF ~db.ok THEN db
    ELSE IF user_id \notin DOMAIN db.users THEN Raise(db, "NOT_FOUND")
    ELSE IF field \notin {"balance", "reserved"} THEN Raise(db, "VALIDATION")
    ELSE LET new_val == Quantize(db.users[user_id][field] + amount) IN
         IF new_val < 0
         THEN Raise(db, IF field = "balance" THEN "INSUFFICIENT_FUNDS"
                                             ELSE "INVALID_RESERVED")
         ELSE [db EXCEPT !.users[user_id][field] = new_val,
                         !.ledger = @ (+) SetToBag({LedgerRow(user_id, amount,
                                                               tx_type, reference_id)})]

(***************************************************************************)
(* Rows and queries.                                                       *)
(***************************************************************************)
NoLot == [exists |-> FALSE, hero_id |-> 0, seller_id |-> 0, starting_price |-> 0,
          current_price |-> 0, end_time |-> 0, winner_id |-> 0, status |-> "",
          created_at |-> 0]

NoBid == [exists |-> FALSE, request_id |-> 0, auction_id |-> 0, lot_id |-> 0,
          bidder_id |-> 0, amount |-> 0]

\* The listing table of a kind of target: item auctions or hero lots.
Table(db, kind) == IF kind = "auction" THEN db.auctions ELSE db.lots

RowExists(db, kind, id) ==
    /\ id \in DOMAIN Table(db, kind)
    /\ (kind = "lot" => db.lots[id].exists)

TargetOf(bid, kind) == IF kind = "auction" THEN bid.auction_id ELSE bid.lot_id

BidsOf(bs, kind, id) ==
    {i \in DOMAIN bs : bs[i].exists /\ TargetOf(bs[i], kind) = id}

\* select(Bid).where(target).order_by(Bid.amount.desc()).limit(1): the id of
\* the row, 0 for none (equal amounts: the row with the lower id).
HighestBid(bs, kind, id) ==
    LET S == BidsOf(bs, kind, id) IN
    IF S = {} THEN 0
    ELSE CHOOSE i \in S : \A j \in S :
            \/ bs[j].amount < bs[i].amount
            \/ (bs[j].amount = bs[i].amount /\ i <= j)

\* select(Bid).where(Bid.request_id == request_id) ... first()
BidByRequest(bs, request_id) ==
    LET S == {i \in DOMAIN bs : bs[i].exists /\ bs[i].request_id = request_id} IN
    IF S = {} THEN 0 ELSE CHOOSE i \in S : \A j \in S : i <= j

\* A bug the closes and the cancel could have: one unit goes to the stash.
StashAddOne(db, user_id, item_id, quantity) ==
    IF ~db.ok THEN db
    ELSE [db EXCEPT !.stash[user_id][item_id] = @ + 1]

StashAdd(db, user_id, item_id, quantity) ==
    IF ~db.ok THEN db
    ELSE [db EXCEPT !.stash[user_id][item_id] = @ + quantity]

(***************************************************************************)
(* Transactions and row locks.                                             *)
(***************************************************************************)
Idle == [op |-> "idle", pc |-> "idle", kind |-> "", id |-> 0, user |-> 0,
         amount |-> 0, rid |-> 0, dur |-> 0, hb_bidder |-> 0, hb_amount |-> 0,
         held |-> {}, batch |-> <<>>, idx |-> 0, pend |-> <<>>]

\* A lockable row: <<table, id, second key>>.
Row(table, id, sub) == <<table, id, sub>>

\* with_for_update(): the row is not locked by another transaction.
Free(t, r) == \A o \in Txns \ {t} : r \notin txn[o].held

tables == <<users, ledger, stash, auctions, lots, bids, autobids, heroes,
            closeRuns>>

Apply(db) ==
    /\ users' = db.users
    /\ ledger' = db.ledger
    /\ stash' = db.stash
    /\ auctions' = db.auctions
    /\ lots' = db.lots
    /\ bids' = db.bids
    /\ autobids' = db.autobids
    /\ heroes' = db.heroes
    /\ closeRuns' = db.closeRuns

\* A bug the transaction block could have: what was written before an
\* exception is committed all the same.
EndWithoutRollback(t, op, db) ==
    /\ Apply(db)
    /\ txn' = [txn EXCEPT ![t] = Idle]
    /\ ret' = [op |-> op, arg |-> db.arg, err |-> db.err, val |-> db.val,
               ev |-> IF db.ok THEN db.ev ELSE <<>>]
    /\ UNCHANGED <<now, lockVars, authVars, taskVars>>

\* The transaction ends: commit when nothing was raised, rollback otherwise;
\* either way its locks are released and the call returns.
End(t, op, db) ==
    /\ IF db.ok THEN Apply(db) ELSE UNCHANGED tables
    /\ txn' = [txn EXCEPT ![t] = Idle]
    /\ ret' = [op |-> op, arg |-> db.arg, err |-> db.err, val |-> db.val,
               ev |-> IF db.ok THEN db.ev ELSE <<>>]
    /\ UNCHANGED <<now, lockVars, authVars, taskVars>>

\* The transaction goes on to its next statement.
Step(t, r) ==
    /\ txn' = [txn EXCEPT ![t] = r]
    /\ UNCHANGED <<now, tables, ret, lockVars, authVars, taskVars>>

Ran(db, kind, id) ==
    IF ~db.ok THEN db
    ELSE [db EXCEPT !.closeRuns[kind][id] = @ + 1, !.val = id]

(***************************************************************************)
(* auction.py: AuctionService.create_auction, cancel_auction.              *)
(***************************************************************************)
\* timedelta(hours=duration) of create_auction.
AuctionHours(duration) == duration

CreateAuctionBody(db, seller_id, item_id, start_price, duration, quantity) ==
    IF db.stash[seller_id][item_id] = 0 \/ db.stash[seller_id][item_id] < quantity
    THEN Raise(db, "FORBIDDEN")
    ELSE [Req(db, duration) EXCEPT
            !.stash[seller_id][item_id] = @ - quantity,
            !.auctions = Append(@, [item_id |-> item_id, seller_id |-> seller_id,
                                    start_price |-> start_price,
                                    current_price |-> start_price,
                                    end_time |-> now + AuctionHours(duration),
                                    winner_id |-> 0, quantity |-> quantity,
                                    status |-> ACTIVE, created_at |-> now]),
            !.closeRuns.auction = Append(@, 0),
            !.val = Len(db.auctions) + 1]

CreateAuction(t, seller_id, item_id, start_price, duration, quantity) ==
    /\ txn[t].pc = "idle"
    /\ Free(t, Row("stash", seller_id, item_id))
    /\ End(t, "create_auction",
           After(CreateAuctionBody(DB, seller_id, item_id, start_price, duration,
                                   quantity),
                 CacheDelete("auctions:active")))

\* A bug cancel_auction could have: the status is not looked at.
CancelChecksAnyStatus(db, auction_id, seller_id) ==
    IF auction_id \notin DOMAIN db.auctions
       \/ db.auctions[auction_id].seller_id # seller_id
    THEN "FORBIDDEN"
    ELSE IF db.auctions[auction_id].end_time < now
    THEN "NOT_ACTIVE"
    ELSE IF db.auctions[auction_id].current_price # db.auctions[auction_id].start_price
    THEN "HAS_BIDS"
    ELSE "ok"

CancelChecks(db, auction_id, seller_id) ==
    IF auction_id \notin DOMAIN db.auctions
       \/ db.auctions[auction_id].seller_id # seller_id
    THEN "FORBIDDEN"
    ELSE IF db.auctions[auction_id].status # ACTIVE
            \/ db.auctions[auction_id].end_time < now
    THEN "NOT_ACTIVE"
    ELSE IF db.auctions[auction_id].current_price # db.auctions[auction_id].start_price
    THEN "HAS_BIDS"
    ELSE "ok"

CancelAuctionBody(db, auction_id, seller_id) ==
    IF CancelChecks(db, auction_id, seller_id) # "ok"
    THEN Raise(db, CancelChecks(db, auction_id, seller_id))
    ELSE LET au == db.auctions[auction_id] IN
         [db EXCEPT !.auctions[auction_id].status = CANCELLED,
                    !.stash[seller_id][au.item_id] = @ + au.quantity,
                    !.val = auction_id]

CancelAuction(t, auction_id, seller_id) ==
    /\ txn[t].pc = "idle"
    /\ Free(t, Row("auction", auction_id, 0))
    /\ CancelChecks(DB, auction_id, seller_id) = "ok"
          => Free(t, Row("stash", seller_id, auctions[auction_id].item_id))
    /\ End(t, "cancel_auction",
           After(CancelAuctionBody(DB, auction_id, seller_id),
                 CacheDelete("auctions:active")))

(***************************************************************************)
(* auction.py: AuctionService.close_auction;                               *)
(* auction_lot.py: AuctionLotService.close_auction_lot.                    *)
(***************************************************************************)
\* A bug close_auction could have: the seller is not paid.
CloseAuctionBodyUnpaid(db, auction_id, hb_bidder, hb_amount) ==
    LET au == db.auctions[auction_id]
        d0 == [db EXCEPT !.auctions[auction_id].status = FINISHED]
    IN  IF hb_bidder # 0
        THEN LET d1 == [d0 EXCEPT !.auctions[auction_id].winner_id = hb_bidder]
                 d2 == AdjustBalance(d1, hb_bidder, -hb_amount,
                                     "auction_release_reserved", auction_id, "reserved")
             IN  Ran(StashAdd(d2, hb_bidder, au.item_id, au.quantity),
                     "auction", auction_id)
        ELSE Ran(StashAdd(d0, au.seller_id, au.item_id, au.quantity),
                 "auction", auction_id)

CloseAuctionBody(db, auction_id, hb_bidder, hb_amount) ==
    LET au == db.auctions[auction_id]
        d0 == [db EXCEPT !.auctions[auction_id].status = FINISHED]
    IN  IF hb_bidder # 0
        THEN LET d1 == [d0 EXCEPT !.auctions[auction_id].winner_id = hb_bidder]
                 d2 == AdjustBalance(d1, hb_bidder, -hb_amount,
                                     "auction_release_reserved", auction_id, "reserved")
                 d3 == AdjustBalance(d2, au.seller_id, hb_amount,
                                     "auction_payout", auction_id, "balance")
             IN  Ran(StashAdd(d3, hb_bidder, au.item_id, au.quantity),
                     "auction", auction_id)
        ELSE Ran(StashAdd(d0, au.seller_id, au.item_id, au.quantity),
                 "auction", auction_id)

\* A bug close_auction_lot could have: the hero stays flagged as listed.
CloseLotBodyKeepsFlag(db, lot_id, hb_bidder, hb_amount) ==
    LET lot == db.lots[lot_id]
        d0 == IF hb_bidder # 0
              THEN LET d1 == [db EXCEPT !.lots[lot_id].winner_id = hb_bidder]
                       d2 == AdjustBalance(d1, hb_bidder, -hb_amount,
                                           "auction_release_reserved", lot_id, "reserved")
                       d3 == AdjustBalance(d2, lot.seller_id, hb_amount,
                                           "auction_payout", lot_id, "balance")
                   IN  IF ~d3.ok THEN d3
                       ELSE [d3 EXCEPT !.heroes[lot.hero_id].owner_id = hb_bidder]
              ELSE db
    IN  IF ~d0.ok THEN d0
        ELSE Ran([d0 EXCEPT !.lots[lot_id].status = FINISHED], "lot", lot_id)

CloseLotBody(db, lot_id, hb_bidder, hb_amount) ==
    LET lot == db.lots[lot_id]
        d0 == IF hb_bidder # 0
              THEN LET d1 == [db EXCEPT !.lots[lot_id].winner_id = hb_bidder]
                       d2 == AdjustBalance(d1, hb_bidder, -hb_amount,
                                           "auction_release_reserved", lot_id, "reserved")
                       d3 == AdjustBalance(d2, lot.seller_id, hb_amount,
                                           "auction_payout", lot_id, "balance")
                   IN  IF ~d3.ok THEN d3
                       ELSE [d3 EXCEPT !.heroes[lot.hero_id].owner_id = hb_bidder]
              ELSE db
    IN  IF ~d0.ok THEN d0
        ELSE Ran([d0 EXCEPT !.heroes[lot.hero_id].is_on_auction = FALSE,
                            !.lots[lot_id].status = FINISHED],
                 "lot", lot_id)

CloseBody(db, kind, id, hb_bidder, hb_amount) ==
    IF kind = "auction"
    THEN After(CloseAuctionBody(db, id, hb_bidder, hb_amount),
               CacheDelete("auctions:active"))
    ELSE After(CloseLotBody(db, id, hb_bidder, hb_amount),
               CacheInvalidate("auctions:active*"))

\* The asset transfer of an item close takes the Stash row of the receiver.
CloseStashFree(t, kind, id, receiver) ==
    kind = "auction" => Free(t, Row("stash", receiver, auctions[id].item_id))

\* "SAFEGUARD: If auction already closed, exit safely" of close_auction and
\* close_auction_lot.
AlreadyClosedUnchecked(db, kind, id) == FALSE

AlreadyClosed(db, kind, id) == Table(db, kind)[id].status # ACTIVE

\* The highest bid of the target as the close reads it.
ReadHighest(r, kind, id) ==
    LET hb == HighestBid(bids, kind, id) IN
    [r EXCEPT !.hb_bidder = IF hb = 0 THEN 0 ELSE bids[hb].bidder_id,
              !.hb_amount = IF hb = 0 THEN 0 ELSE bids[hb].amount]

CloseBegin(t, kind, id) ==
    /\ txn[t].pc = "idle"
    /\ Free(t, Row(kind, id, 0))
    /\ IF ~RowExists(DB, kind, id)
       THEN End(t, "close", Raise(DB, "NOT_FOUND"))
       ELSE IF AlreadyClosed(DB, kind, id)
       THEN End(t, "close", [DB EXCEPT !.val = id])
       ELSE LET r == [Idle EXCEPT !.op = "close", !.kind = kind, !.id = id,
                                  !.held = {Row(kind, id, 0)}]
            IN  IF kind = "lot"
                THEN Step(t, [r EXCEPT !.pc = "lock_hero"])
                ELSE IF HighestBid(bids, kind, id) # 0
                THEN Step(t, [ReadHighest(r, kind, id) EXCEPT !.pc = "lock_winner"])
                ELSE /\ CloseStashFree(t, kind, id, auctions[id].seller_id)
                     /\ End(t, "close", CloseBody(DB, kind, id, 0, 0))

CloseLockHero(t) ==
    /\ txn[t].op = "close"
    /\ txn[t].pc = "lock_hero"
    /\ LET id == txn[t].id
           hero_id == lots[id].hero_id
       IN  /\ Free(t, Row("hero", hero_id, 0))
           /\ IF hero_id \notin DOMAIN heroes
              THEN End(t, "close", Raise(DB, "NOT_FOUND"))
              ELSE IF HighestBid(bids, "lot", id) # 0
              THEN Step(t, [ReadHighest(txn[t], "lot", id) EXCEPT
                               !.pc = "lock_winner",
                               !.held = @ \cup {Row("hero", hero_id, 0)}])
              ELSE End(t, "close", CloseBody(DB, "lot", id, 0, 0))

CloseLockWinner(t) ==
    /\ txn[t].op = "close"
    /\ txn[t].pc = "lock_winner"
    /\ Free(t, Row("user", txn[t].hb_bidder, 0))
    /\ Step(t, [txn[t] EXCEPT !.pc = "lock_seller",
                              !.held = @ \cup {Row("user", txn[t].hb_bidder, 0)}])

CloseLockSeller(t) ==
    /\ txn[t].op = "close"
    /\ txn[t].pc = "lock_seller"
    /\ Free(t, Row("user", Table(DB, txn[t].kind)[txn[t].id].seller_id, 0))
    /\ CloseStashFree(t, txn[t].kind, txn[t].id, txn[t].hb_bidder)
    /\ End(t, "close",
           CloseBody(DB, txn[t].kind, txn[t].id, txn[t].hb_bidder, txn[t].hb_amount))

(***************************************************************************)
(* bid.py: BidService.place_bid, place_lot_bid, set_auto_bid, delete_bid.  *)
(***************************************************************************)
\* A bug place_bid could have: the amount is not compared with the price.
BidTargetChecksAnyAmount(db, kind, id, bidder_id, amount) ==
    IF ~RowExists(db, kind, id)
       \/ Table(db, kind)[id].status # ACTIVE
       \/ Table(db, kind)[id].end_time < now
    THEN "NOT_ACTIVE"
    ELSE IF Table(db, kind)[id].seller_id = bidder_id THEN "SELF_BID"
    ELSE "ok"

BidTargetChecks(db, kind, id, bidder_id, amount) ==
    IF ~RowExists(db, kind, id)
       \/ Table(db, kind)[id].status # ACTIVE
       \/ Table(db, kind)[id].end_time < now
    THEN "NOT_ACTIVE"
    ELSE IF Table(db, kind)[id].seller_id = bidder_id THEN "SELF_BID"
    ELSE IF amount <= Table(db, kind)[id].current_price THEN "BID_TOO_LOW"
    ELSE "ok"

\* A bug the schema could have: no unique index on bids.request_id.
RequestIdUnchecked(bs, request_id) == TRUE

\* The unique index on bids.request_id, checked when the row is flushed.
RequestIdUnique(bs, request_id) ==
    request_id # 0 => BidByRequest(bs, request_id) = 0

\* A bug place_bid could have: the outbid bidder's reservation is kept.
PlaceBidBodyKeepsReserve(db, kind, id, bidder_id, amount, request_id, hb_bidder, hb_amount) ==
    LET d2 == AdjustBalance(Req(db, request_id), bidder_id, amount, "bid_reserve",
                            id, "reserved")
        row == [exists |-> TRUE, request_id |-> request_id,
                auction_id |-> IF kind = "auction" THEN id ELSE 0,
                lot_id |-> IF kind = "lot" THEN id ELSE 0,
                bidder_id |-> bidder_id, amount |-> amount]
    IN  IF ~d2.ok THEN d2
        ELSE IF ~RequestIdUnique(d2.bids, request_id) THEN Raise(d2, "CONFLICT")
        ELSE LET d3 == [d2 EXCEPT !.bids = Append(@, row),
                                  !.val = Len(d2.bids) + 1]
             IN  IF kind = "auction"
                 THEN [d3 EXCEPT !.auctions[id].current_price = Quantize(amount),
                                 !.auctions[id].winner_id = bidder_id]
                 ELSE [d3 EXCEPT !.lots[id].current_price = Quantize(amount),
                                 !.lots[id].winner_id = bidder_id]

PlaceBidBody(db, kind, id, bidder_id, amount, request_id, hb_bidder, hb_amount) ==
    LET d0 == Req(db, request_id)
        d1 == IF hb_bidder # 0 /\ hb_bidder # bidder_id
              THEN AdjustBalance(d0, hb_bidder, -hb_amount, "bid_release_reserved",
                                 id, "reserved")
              ELSE d0
        d2 == AdjustBalance(d1, bidder_id, amount, "bid_reserve", id, "reserved")
        row == [exists |-> TRUE, request_id |-> request_id,
                auction_id |-> IF kind = "auction" THEN id ELSE 0,
                lot_id |-> IF kind = "lot" THEN id ELSE 0,
                bidder_id |-> bidder_id, amount |-> amount]
    IN  IF ~d2.ok THEN d2
        ELSE IF ~RequestIdUnique(d2.bids, request_id) THEN Raise(d2, "CONFLICT")
        ELSE LET d3 == [d2 EXCEPT !.bids = Append(@, row),
                                  !.val = Len(d2.bids) + 1]
             IN  IF kind = "auction"
                 THEN After([d3 EXCEPT !.auctions[id].current_price = Quantize(amount),
                                       !.auctions[id].winner_id = bidder_id],
                            CacheInvalidate("auctions:active*"))
                 ELSE After(After([d3 EXCEPT
                                     !.lots[id].current_price = Quantize(amount),
                                     !.lots[id].winner_id = bidder_id],
                                  CacheInvalidate("auctions:active*")),
                            CacheInvalidate("auctions:active_lots*"))

\* The target row is locked and checked.
BidAtTarget(t, r) ==
    LET e == BidTargetChecks(DB, r.kind, r.id, r.user, r.amount) IN
    /\ (RowExists(DB, r.kind, r.id) /\ Table(DB, r.kind)[r.id].status = ACTIVE)
          => Free(t, Row(r.kind, r.id, 0))
    /\ IF e # "ok"
       THEN End(t, "place_bid", Raise(Req(DB, r.rid), e))
       ELSE Step(t, [r EXCEPT !.pc = "lock_bidder",
                              !.held = {Row(r.kind, r.id, 0)}])

\* A bug place_bid could have: no look for an earlier Bid of the request.
BidBeginUnchecked(t, kind, id, bidder_id, amount, request_id) ==
    LET r == [Idle EXCEPT !.op = "place_bid", !.pc = "lock_target",
                          !.kind = kind, !.id = id, !.user = bidder_id,
                          !.amount = amount, !.rid = request_id]
    IN  /\ txn[t].pc = "idle"
        /\ IF request_id = 0 THEN BidAtTarget(t, r) ELSE Step(t, r)

\* The idempotency check is made before the transaction opens; without a
\* request_id the first statement is the lock of the target.
BidBegin(t, kind, id, bidder_id, amount, request_id) ==
    LET r == [Idle EXCEPT !.op = "place_bid", !.pc = "lock_target",
                          !.kind = kind, !.id = id, !.user = bidder_id,
                          !.amount = amount, !.rid = request_id]
    IN  /\ txn[t].pc = "idle"
        /\ IF request_id = 0 THEN BidAtTarget(t, r)
           ELSE IF BidByRequest(bids, request_id) # 0
           THEN End(t, "place_bid",
                    [Req(DB, request_id) EXCEPT
                        !.val = BidByRequest(bids, request_id)])
           ELSE Step(t, r)

BidLockTarget(t) ==
    /\ txn[t].op = "place_bid"
    /\ txn[t].pc = "lock_target"
    /\ BidAtTarget(t, txn[t])

BidLockBidder(t) ==
    /\ txn[t].op = "place_bid"
    /\ txn[t].pc = "lock_bidder"
    /\ Free(t, Row("user", txn[t].user, 0))
    /\ LET r == [ReadHighest(txn[t], txn[t].kind, txn[t].id) EXCEPT
                    !.held = @ \cup {Row("user", txn[t].user, 0)}]
       IN  IF users[r.user].balance - users[r.user].reserved < r.amount
           THEN End(t, "place_bid", Raise(Req(DB, r.rid), "INSUFFICIENT_FUNDS"))
           ELSE IF r.hb_bidder # 0 /\ r.hb_bidder # r.user
           THEN Step(t, [r EXCEPT !.pc = "lock_prev"])
           ELSE End(t, "place_bid",
                    PlaceBidBody(DB, r.kind, r.id, r.user, r.amount, r.rid,
                                 r.hb_bidder, r.hb_amount))

BidLockPrev(t) ==
    /\ txn[t].op = "place_bid"
    /\ txn[t].pc = "lock_prev"
    /\ Free(t, Row("user", txn[t].hb_bidder, 0))
    /\ End(t, "place_bid",
           PlaceBidBody(DB, txn[t].kind, txn[t].id, txn[t].user, txn[t].amount,
                        txn[t].rid, txn[t].hb_bidder, txn[t].hb_amount))

\* The AutoBid row set_auto_bid finds for (user, target): its id, 0 for none.
FindAutoBid(ab, user_id, auction_id, lot_id) ==
    LET S == {i \in DOMAIN ab :
                /\ ab[i].user_id = user_id
                /\ IF auction_id # 0 THEN ab[i].auction_id = auction_id
                   ELSE IF lot_id # 0 THEN ab[i].lot_id = lot_id
                   ELSE FALSE}
    IN  IF S = {} THEN 0 ELSE CHOOSE i \in S : \A j \in S : i <= j

\* A bug set_auto_bid could have: an update reserves the whole new maximum.
SetAutoBidBodyReservesAll(db, user_id, auction_id, lot_id, max_amount) ==
    IF db.users[user_id].balance - db.users[user_id].reserved < max_amount
    THEN Raise(db, "INSUFFICIENT_FUNDS")
    ELSE LET i == FindAutoBid(db.autobids, user_id, auction_id, lot_id) IN
         IF i # 0
         THEN LET diff == max_amount - db.autobids[i].max_amount
                  d1 == IF diff # 0
                        THEN AdjustBalance(db, user_id, max_amount, "autobid_reserve_update",
                                           0, "reserved")
                        ELSE db
              IN  IF ~d1.ok THEN d1
                  ELSE [d1 EXCEPT !.autobids[i].max_amount = Quantize(max_amount),
                                  !.val = i]
         ELSE LET d1 == [db EXCEPT
                           !.autobids = Append(@, [auction_id |-> auction_id,
                                                   lot_id |-> lot_id,
                                                   user_id |-> user_id,
                                                   max_amount |-> Quantize(max_amount)]),
                           !.val = Len(db.autobids) + 1]
              IN  AdjustBalance(d1, user_id, max_amount, "autobid_reserve", 0,
                                "reserved")

SetAutoBidBody(db, user_id, auction_id, lot_id, max_amount) ==
    IF db.users[user_id].balance - db.users[user_id].reserved < max_amount
    THEN Raise(db, "INSUFFICIENT_FUNDS")
    ELSE LET i == FindAutoBid(db.autobids, user_id, auction_id, lot_id) IN
         IF i # 0
         THEN LET diff == max_amount - db.autobids[i].max_amount
                  d1 == IF diff # 0
                        THEN AdjustBalance(db, user_id, diff, "autobid_reserve_update",
                                           0, "reserved")
                        ELSE db
              IN  IF ~d1.ok THEN d1
                  ELSE [d1 EXCEPT !.autobids[i].max_amount = Quantize(max_amount),
                                  !.val = i]
         ELSE LET d1 == [db EXCEPT
                           !.autobids = Append(@, [auction_id |-> auction_id,
                                                   lot_id |-> lot_id,
                                                   user_id |-> user_id,
                                                   max_amount |-> Quantize(max_amount)]),
                           !.val = Len(db.autobids) + 1]
              IN  AdjustBalance(d1, user_id, max_amount, "autobid_reserve", 0,
                                "reserved")

SetAutoBid(t, user_id, kind, id, max_amount) ==
    /\ txn[t].pc = "idle"
    /\ RowExists(DB, kind, id)
    /\ Free(t, Row("user", user_id, 0))
    /\ End(t, "set_auto_bid",
           SetAutoBidBody(DB, user_id, IF kind = "auction" THEN id ELSE 0,
                          IF kind = "lot" THEN id ELSE 0, max_amount))

DeleteBid(bid_id) ==
    /\ bid_id \in DOMAIN bids
    /\ bids[bid_id].exists
    /\ bids' = [bids EXCEPT ![bid_id] = NoBid]
    /\ ret' = [op |-> "delete_bid", arg |-> 0, err |-> "ok", val |-> bid_id,
               ev |-> <<>>]
    /\ UNCHANGED <<now, users, ledger, stash, auctions, lots, autobids, heroes,
                   txn, closeRuns, lockVars, authVars, taskVars>>

(***************************************************************************)
(* hero.py: HeroService.generate_and_store.                                *)
(***************************************************************************)
NewHero(owner_id) ==
    [owner_id |-> owner_id, is_on_auction |-> FALSE, is_training |-> FALSE,
     is_dead |-> FALSE, is_deleted |-> FALSE, equipped |-> FALSE]

\* The heroes that exist when the model starts: hero 1, owned by user 1.
InitHeroes == <<NewHero(1)>>

HeroCount(hs, owner_id) ==
    Cardinality({h \in DOMAIN hs : hs[h].owner_id = owner_id /\ ~hs[h].is_deleted})

GenerateHeroBody(db, owner_id, currency) ==
    IF owner_id \notin DOMAIN db.users THEN Raise(db, "NOT_FOUND")
    ELSE IF HeroCount(db.heroes, owner_id) >= MAX_HEROES THEN Raise(db, "LIMIT")
    ELSE LET d1 == AdjustBalance(db, owner_id, -(HERO_COST_FACTOR * currency),
                                 "hero_generation", 0, "balance")
         IN  IF ~d1.ok THEN d1
             ELSE [d1 EXCEPT !.heroes = Append(@, NewHero(owner_id)),
                             !.val = Len(db.heroes) + 1]

GenerateHero(t, owner_id, currency) ==
    /\ txn[t].pc = "idle"
    /\ Free(t, Row("user", owner_id, 0))
    /\ End(t, "generate_hero", GenerateHeroBody(DB, owner_id, currency))

(***************************************************************************)
(* auction_lot.py: AuctionLotService.create_auction_lot, delete_auction_lot*)
(***************************************************************************)
\* timedelta(hours=min(duration, MAX_AUCTION_DURATION_HOURS)).
LotHours(duration) == Min(duration, MAX_AUCTION_DURATION_HOURS)

ActiveLotExists(ls, hero_id) ==
    \E l \in DOMAIN ls :
        ls[l].exists /\ ls[l].hero_id = hero_id /\ ls[l].status = ACTIVE

\* A schema without the unique constraint on auction_lots.hero_id.
LotHeroAny(ls, hero_id) == TRUE

\* hero_id = Column(..., unique=True) of AuctionLot, checked at the flush.
LotHeroUnique(ls, hero_id) ==
    ~\E l \in DOMAIN ls : ls[l].exists /\ ls[l].hero_id = hero_id

HeroListable(db, hero_id, seller_id) ==
    IF hero_id \notin DOMAIN db.heroes \/ db.heroes[hero_id].owner_id # seller_id
    THEN "FORBIDDEN"
    ELSE IF db.heroes[hero_id].is_dead \/ db.heroes[hero_id].is_training
    THEN "HERO_BUSY"
    ELSE IF db.heroes[hero_id].is_on_auction THEN "ON_AUCTION"
    ELSE IF db.heroes[hero_id].equipped THEN "EQUIPPED"
    ELSE "ok"

CreateLotBody(db, hero_id, seller_id, starting_price, duration) ==
    IF HeroListable(db, hero_id, seller_id) # "ok"
    THEN Raise(db, HeroListable(db, hero_id, seller_id))
    ELSE IF ~LotHeroUnique(db.lots, hero_id) THEN Raise(db, "CONFLICT")
    ELSE [Req(db, duration) EXCEPT
            !.heroes[hero_id].is_on_auction = TRUE,
            !.lots = Append(@, [exists |-> TRUE, hero_id |-> hero_id,
                                seller_id |-> seller_id,
                                starting_price |-> starting_price,
                                current_price |-> starting_price,
                                end_time |-> now + LotHours(duration),
                                winner_id |-> 0, status |-> ACTIVE,
                                created_at |-> now]),
            !.closeRuns.lot = Append(@, 0),
            !.val = Len(db.lots) + 1]

\* The check for an ACTIVE lot of the hero, made before the hero is locked.
CreateLotBegin(t, hero_id, seller_id, starting_price, duration) ==
    /\ txn[t].pc = "idle"
    /\ \A l \in DOMAIN lots :
          (lots[l].exists /\ lots[l].hero_id = hero_id /\ lots[l].status = ACTIVE)
             => Free(t, Row("lot", l, 0))
    /\ IF ActiveLotExists(lots, hero_id)
       THEN End(t, "create_lot", Raise(DB, "DUPLICATE_LOT"))
       ELSE Step(t, [Idle EXCEPT !.op = "create_lot", !.pc = "lock_hero",
                                 !.id = hero_id, !.user = seller_id,
                                 !.amount = starting_price, !.dur = duration])

CreateLotLockHero(t) ==
    /\ txn[t].op = "create_lot"
    /\ txn[t].pc = "lock_hero"
    /\ Free(t, Row("hero", txn[t].id, 0))
    /\ End(t, "create_lot",
           After(CreateLotBody(DB, txn[t].id, txn[t].user, txn[t].amount, txn[t].dur),
                 CacheInvalidate("auctions:active*")))

DeleteLotChecks(db, lot_id, seller_id) ==
    IF ~RowExists(db, "lot", lot_id) \/ db.lots[lot_id].seller_id # seller_id
    THEN "FORBIDDEN"
    ELSE IF db.lots[lot_id].current_price # db.lots[lot_id].starting_price
    THEN "HAS_BIDS"
    ELSE "ok"

\* A bug delete_auction_lot could have: the hero stays flagged as listed.
DeleteLotBodyKeepsFlag(db, lot_id) ==
    [db EXCEPT !.lots[lot_id] = NoLot,
               !.val = lot_id]

DeleteLotBody(db, lot_id) ==
    [db EXCEPT !.heroes[db.lots[lot_id].hero_id].is_on_auction = FALSE,
               !.lots[lot_id] = NoLot,
               !.val = lot_id]

DeleteLotBegin(t, lot_id, seller_id) ==
    /\ txn[t].pc = "idle"
    /\ Free(t, Row("lot", lot_id, 0))
    /\ IF DeleteLotChecks(DB, lot_id, seller_id) # "ok"
       THEN End(t, "delete_lot", Raise(DB, DeleteLotChecks(DB, lot_id, seller_id)))
       ELSE Step(t, [Idle EXCEPT !.op = "delete_lot", !.pc = "lock_hero",
                                 !.kind = "lot", !.id = lot_id, !.user = seller_id,
                                 !.held = {Row("lot", lot_id, 0)}])

DeleteLotLockHero(t) ==
    /\ txn[t].op = "delete_lot"
    /\ txn[t].pc = "lock_hero"
    /\ Free(t, Row("hero", lots[txn[t].id].hero_id, 0))
    /\ End(t, "delete_lot",
           After(DeleteLotBody(DB, txn[t].id), CacheInvalidate("auctions:active*")))

(***************************************************************************)
(* routers/hero.py and hero.py: start_training, delete_hero;               *)
(* routers/equipment.py and equipment.py: equip_item.                      *)
(***************************************************************************)
\* get_hero(hero_id): the hero, unless it is missing or deleted.
GetHero(hs, hero_id) == hero_id \in DOMAIN hs /\ ~hs[hero_id].is_deleted

\* The route reads the hero and checks its owner, the service reads it again
\* and checks is_training; neither read locks the row.
StartTrainingChecks(hs, hero_id, user_id) ==
    IF ~GetHero(hs, hero_id) \/ hs[hero_id].owner_id # user_id THEN "NOT_FOUND"
    ELSE IF hs[hero_id].is_training THEN "ALREADY_TRAINING"
    ELSE "ok"

StartTrainingBegin(t, hero_id, user_id) ==
    /\ txn[t].pc = "idle"
    /\ IF StartTrainingChecks(heroes, hero_id, user_id) # "ok"
       THEN End(t, "start_training",
                Raise(DB, StartTrainingChecks(heroes, hero_id, user_id)))
       ELSE Step(t, [Idle EXCEPT !.op = "start_training", !.pc = "commit",
                                 !.id = hero_id, !.user = user_id])

\* commit_or_rollback(): the UPDATE of the hero row waits for its lock.
StartTrainingCommit(t) ==
    /\ txn[t].op = "start_training"
    /\ txn[t].pc = "commit"
    /\ Free(t, Row("hero", txn[t].id, 0))
    /\ End(t, "start_training",
           [DB EXCEPT !.heroes[txn[t].id].is_training = TRUE, !.val = txn[t].id])

DeleteHeroChecks(hs, hero_id, user_id) ==
    IF ~GetHero(hs, hero_id) \/ hs[hero_id].owner_id # user_id THEN "NOT_FOUND"
    ELSE "ok"

DeleteHeroBegin(t, hero_id, user_id) ==
    /\ txn[t].pc = "idle"
    /\ IF DeleteHeroChecks(heroes, hero_id, user_id) # "ok"
       THEN End(t, "delete_hero",
                Raise(DB, DeleteHeroChecks(heroes, hero_id, user_id)))
       ELSE Step(t, [Idle EXCEPT !.op = "delete_hero", !.pc = "commit",
                                 !.id = hero_id, !.user = user_id])

DeleteHeroCommit(t) ==
    /\ txn[t].op = "delete_hero"
    /\ txn[t].pc = "commit"
    /\ Free(t, Row("hero", txn[t].id, 0))
    /\ End(t, "delete_hero",
           [DB EXCEPT !.heroes[txn[t].id].is_deleted = TRUE, !.val = txn[t].id])

SlotTypes == {"weapon", "helmet"}

\* Item.slot_type of the catalog items.
ItemSlot(item_id) == "weapon"

\* db.get(Hero, hero_id) of the route, then the stash row and the item.
EquipChecks(db, hero_id, user_id, item_id, slot) ==
    IF hero_id \notin DOMAIN db.heroes \/ db.heroes[hero_id].owner_id # user_id
    THEN "FORBIDDEN"
    ELSE IF db.stash[user_id][item_id] < 1 THEN "NOT_IN_STASH"
    ELSE IF ItemSlot(item_id) # slot THEN "BAD_SLOT"
    ELSE "ok"

\* With an item in the slot already, that item goes back to the stash row
\* the new one is taken from; the hero is equipped afterwards either way.
EquipBody(db, hero_id, user_id, item_id) ==
    LET d1 == IF db.heroes[hero_id].equipped
              THEN [db EXCEPT !.stash[user_id][item_id] = @ + 1]
              ELSE db
    IN  [d1 EXCEPT !.stash[user_id][item_id] = @ - 1,
                   !.heroes[hero_id].equipped = TRUE,
                   !.val = hero_id]

EquipItemBegin(t, hero_id, user_id, item_id, slot) ==
    /\ txn[t].pc = "idle"
    /\ Free(t, Row("stash", user_id, item_id))
    /\ IF EquipChecks(DB, hero_id, user_id, item_id, slot) # "ok"
       THEN End(t, "equip_item",
                Raise(DB, EquipChecks(DB, hero_id, user_id, item_id, slot)))
       ELSE Step(t, [Idle EXCEPT !.op = "equip_item", !.pc = "flush",
                                 !.id = hero_id, !.user = user_id,
                                 !.amount = item_id,
                                 !.held = {Row("stash", user_id, item_id)}])

\* flush(): the INSERT of the Equipment row takes a key-share lock on the
\* hero row it refers to, which waits for a FOR UPDATE lock on that row.
EquipItemFlush(t) ==
    /\ txn[t].op = "equip_item"
    /\ txn[t].pc = "flush"
    /\ Free(t, Row("hero", txn[t].id, 0))
    /\ End(t, "equip_item",
           EquipBody(DB, txn[t].id, txn[t].user, txn[t].amount))

(***************************************************************************)
(* tasks/auctions.py: close_expired_auctions_task, one iteration.          *)
(***************************************************************************)
\* select(Auction).where(status == ACTIVE, end_time <= now)
\*     .with_for_update(skip_locked=True)
Expired(t) ==
    {a \in DOMAIN auctions :
        /\ auctions[a].status = ACTIVE
        /\ auctions[a].end_time <= now
        /\ Free(t, Row("auction", a, 0))}

RECURSIVE InIdOrder(_)
InIdOrder(S) ==
    IF S = {} THEN <<>>
    ELSE LET m == CHOOSE x \in S : \A y \in S : x <= y
         IN  <<m>> \o InIdOrder(S \ {m})

\* The closes of one sweep, each in its own savepoint: one that raises is
\* rolled back alone and the batch goes on.
RECURSIVE SweepFold(_, _)
SweepFold(db, pend) ==
    IF pend = <<>> THEN db
    ELSE LET d == CloseBody(db, "auction", Head(pend).id, Head(pend).hb_bidder,
                            Head(pend).hb_amount)
         IN  SweepFold(IF d.ok THEN d ELSE db, Tail(pend))

SweepBegin(t) ==
    /\ txn[t].pc = "idle"
    /\ IF Expired(t) = {}
       THEN End(t, "sweep", DB)
       ELSE Step(t, [Idle EXCEPT !.op = "sweep", !.pc = "sweep", !.kind = "auction",
                                 !.batch = InIdOrder(Expired(t)), !.idx = 1,
                                 !.held = {Row("auction", a, 0) : a \in Expired(t)}])

\* close_auction(auction.id) inside the sweep: the highest bid is read.
SweepRead(t) ==
    /\ txn[t].op = "sweep"
    /\ txn[t].pc = "sweep"
    /\ txn[t].idx <= Len(txn[t].batch)
    /\ LET a == txn[t].batch[txn[t].idx]
           r == ReadHighest(txn[t], "auction", a)
       IN  IF r.hb_bidder # 0
           THEN Step(t, [r EXCEPT !.pc = "lock_winner", !.id = a])
           ELSE /\ Free(t, Row("stash", auctions[a].seller_id, auctions[a].item_id))
                /\ Step(t, [r EXCEPT
                              !.pend = Append(@, [id |-> a, hb_bidder |-> 0,
                                                  hb_amount |-> 0]),
                              !.held = @ \cup {Row("stash", auctions[a].seller_id,
                                                   auctions[a].item_id)},
                              !.idx = @ + 1])

SweepLockWinner(t) ==
    /\ txn[t].op = "sweep"
    /\ txn[t].pc = "lock_winner"
    /\ Free(t, Row("user", txn[t].hb_bidder, 0))
    /\ Step(t, [txn[t] EXCEPT !.pc = "lock_seller",
                              !.held = @ \cup {Row("user", txn[t].hb_bidder, 0)}])

SweepLockSeller(t) ==
    /\ txn[t].op = "sweep"
    /\ txn[t].pc = "lock_seller"
    /\ LET a == txn[t].id IN
       /\ Free(t, Row("user", auctions[a].seller_id, 0))
       /\ Free(t, Row("stash", txn[t].hb_bidder, auctions[a].item_id))
       /\ Step(t, [txn[t] EXCEPT
                     !.pc = "sweep",
                     !.pend = Append(@, [id |-> a, hb_bidder |-> txn[t].hb_bidder,
                                         hb_amount |-> txn[t].hb_amount]),
                     !.held = @ \cup {Row("user", auctions[a].seller_id, 0),
                                      Row("stash", txn[t].hb_bidder,
                                          auctions[a].item_id)},
                     !.idx = @ + 1])

\* The end of "async with session.begin()": everything is committed at once.
SweepCommit(t) ==
    /\ txn[t].op = "sweep"
    /\ txn[t].pc = "sweep"
    /\ txn[t].idx > Len(txn[t].batch)
    /\ End(t, "sweep", SweepFold(DB, txn[t].pend))

(***************************************************************************)
(* Time passes.                                                            *)
(***************************************************************************)
Tick ==
    /\ now < MaxNow
    /\ now' = now + 1
    /\ UNCHANGED <<tables, txn, ret, lockVars, authVars, taskVars>>

(***************************************************************************)
(* The system: one seller (user 1) and two funded bidders.  The seller     *)
(* starts with stock of the item, or with a hero; the operations of the    *)
(* item auctions and those of the hero lots then run on the same users.    *)
(***************************************************************************)
InitUsers ==
    [u \in Users |-> [balance |-> IF u = 1 THEN 0 ELSE 400, reserved |-> 0]]

StockOf(n) == [u \in Users |-> [i \in Items |-> IF u = 1 THEN n ELSE 0]]

NoRet == [op |-> "none", arg |-> 0, err |-> "ok", val |-> 0, ev |-> <<>>]

\* core/redis_cache.py subscribes its handler, callback 1, when it is
\* imported; no emit is running.
EventNames == {"cache_invalidate", "chat"}
ImportSubscribers ==
    [e \in EventNames |-> IF e = "cache_invalidate" THEN <<1>> ELSE <<>>]
NoEmit == [subscribers |-> ImportSubscribers, pc |-> "idle", event |-> "",
           handlers |-> <<>>, idx |-> 0, calls |-> <<>>]

\* RedisCache(): _client is None; the Redis server holds no key.
NoCache == [client |-> FALSE, store |-> {}]

\* Every instance of the sweeper is in its asyncio.sleep(60).
SweeperInstances == {1, 2}
Asleep == [pc |-> "sleep", batch |-> 0, runs |-> 0]

\* No lock key is set, no lock object has acquired, no token is issued.
LockClients == {1, 2, 3}
NoKey == [value |-> 0, ttl |-> 0]
\* auto_renewal is the argument of the constructor; renewal is where the
\* task of _renew_loop is: "none" while _renewal_task is None.
NewLock == [acquired |-> FALSE, pc |-> "idle", auto_renewal |-> FALSE,
            renewal |-> "none"]

InitOutside ==
    /\ redis = NoKey
    /\ locks = [c \in LockClients |-> NewLock]
    /\ tokens = {}
    /\ refreshed = {}
    /\ bus = NoEmit
    /\ sweeper = [i \in SweeperInstances |-> Asleep]
    /\ cache = NoCache

InitCommon ==
    /\ now = 0
    /\ users = InitUsers
    /\ ledger = EmptyBag
    /\ auctions = <<>>
    /\ lots = <<>>
    /\ bids = <<>>
    /\ autobids = <<>>
    /\ txn = [t \in Txns |-> Idle]
    /\ closeRuns = [auction |-> <<>>, lot |-> <<>>]
    /\ ret = NoRet
    /\ InitOutside

Init ==
    /\ InitCommon
    /\ \/ stash = StockOf(1) /\ heroes = <<>>
       \/ stash = StockOf(0) /\ heroes = InitHeroes

Kinds == {"auction", "lot"}

\* The client of user 2 tags each request with an id it repeats on a retry
\* of the same request; the other clients send none.
RequestIdsOf(u, m) == IF u = 2 THEN {m} ELSE {0}

\* The bounds of the model: the tables stop growing.
BidRoom == Len(bids) < MaxBids /\ BagCardinality(ledger) < MaxLedger

Next ==
    \/ Tick
    \/ \E t \in Txns, u \in Users, i \in Items, p \in StartPrices,
          d \in Durations, q \in Quantities :
          Len(auctions) < MaxAuctions /\ CreateAuction(t, u, i, p, d, q)
    \/ \E t \in Txns, a \in 1..MaxAuctions, u \in Users : CancelAuction(t, a, u)
    \/ \E t \in Txns, a \in 1..MaxAuctions : CloseBegin(t, "auction", a)
    \/ \E t \in Txns, l \in 1..MaxLots : CloseBegin(t, "lot", l)
    \/ \E t \in Txns : CloseLockHero(t)
    \/ \E t \in Txns : CloseLockWinner(t)
    \/ \E t \in Txns : CloseLockSeller(t)
    \/ \E t \in Txns, k \in Kinds, a \in 1..MaxAuctions, u \in Users,
          m \in Amounts :
          \E r \in RequestIdsOf(u, m) :
             (r = 0 => BidRoom) /\ BidBegin(t, k, a, u, m, r)
    \/ \E t \in Txns : BidRoom /\ BidLockTarget(t)
    \/ \E t \in Txns : BidLockBidder(t)
    \/ \E t \in Txns : BidLockPrev(t)
    \/ \E b \in 1..MaxBids : DeleteBid(b)
    \/ \E t \in Txns, h \in 1..Len(heroes), u \in Users, p \in StartPrices,
          d \in Durations :
          Len(lots) < MaxLots /\ CreateLotBegin(t, h, u, p, d)
    \/ \E t \in Txns : CreateLotLockHero(t)
    \/ \E t \in Txns, l \in 1..MaxLots, u \in Users : DeleteLotBegin(t, l, u)
    \/ \E t \in Txns : DeleteLotLockHero(t)
    \/ \E t \in Txns : SweepBegin(t)
    \/ \E t \in Txns : SweepRead(t)
    \/ \E t \in Txns : SweepLockWinner(t)
    \/ \E t \in Txns : SweepLockSeller(t)
    \/ \E t \in Txns : SweepCommit(t)

Spec == Init /\ [][Next]_vars

(***************************************************************************)
(* The money operations on one item auction and one hero lot that are      *)
(* already listed by user 1: bids, auto-bids, closes, cancel and hero      *)
(* generation, in any interleaving.                                        *)
(***************************************************************************)
AutoBidders == {3}
Generators == {2}

InitMoney ==
    /\ now = 0
    /\ users = InitUsers
    /\ ledger = EmptyBag
    /\ stash = StockOf(0)
    /\ auctions = <<[item_id |-> 1, seller_id |-> 1, start_price |-> 100,
                     current_price |-> 100, end_time |-> 1, winner_id |-> 0,
                     quantity |-> 1, status |-> ACTIVE, created_at |-> 0]>>
    /\ lots = <<[exists |-> TRUE, hero_id |-> 1, seller_id |-> 1,
                 starting_price |-> 100, current_price |-> 100, end_time |-> 1,
                 winner_id |-> 0, status |-> ACTIVE, created_at |-> 0]>>
    /\ bids = <<>>
    /\ autobids = <<>>
    /\ heroes = <<[NewHero(1) EXCEPT !.is_on_auction = TRUE]>>
    /\ txn = [t \in Txns |-> Idle]
    /\ closeRuns = [auction |-> <<0>>, lot |-> <<0>>]
    /\ ret = NoRet
    /\ InitOutside

LedgerRoom == BagCardinality(ledger) < MaxLedger

NextMoney ==
    \/ \E t \in Txns, k \in Kinds, u \in Users, m \in Amounts :
          \E r \in RequestIdsOf(u, m) :
             (r = 0 => BidRoom) /\ BidBegin(t, k, 1, u, m, r)
    \/ \E t \in Txns : BidRoom /\ BidLockTarget(t)
    \/ \E t \in Txns : BidLockBidder(t)
    \/ \E t \in Txns : BidLockPrev(t)
    \/ \E t \in Txns, u \in AutoBidders, k \in Kinds, m \in Amounts :
          LedgerRoom /\ SetAutoBid(t, u, k, 1, m)
    \/ \E t \in Txns, k \in Kinds : CloseBegin(t, k, 1)
    \/ \E t \in Txns : CloseLockHero(t)
    \/ \E t \in Txns : CloseLockWinner(t)
    \/ \E t \in Txns : CloseLockSeller(t)
    \/ \E t \in Txns, u \in Users : CancelAuction(t, 1, u)
    \/ \E t \in Txns, u \in Generators, c \in Currencies :
          /\ LedgerRoom
          /\ Len(heroes) < Len(InitHeroes) + MaxGenerated
          /\ GenerateHero(t, u, c)

SpecMoney == InitMoney /\ [][NextMoney]_vars

(***************************************************************************)
(* The listing of one hero, over and over: createLot, deleteLot, closeLot. *)
(***************************************************************************)
InitLot ==
    /\ InitCommon
    /\ stash = StockOf(0)
    /\ heroes = InitHeroes

NextLot ==
    \/ \E t \in Txns, h \in 1..Len(heroes), u \in Users, p \in StartPrices :
          Len(lots) < MaxRelist /\ CreateLotBegin(t, h, u, p, 1)
    \/ \E t \in Txns : CreateLotLockHero(t)
    \/ \E t \in Txns, l \in 1..MaxRelist, u \in Users : DeleteLotBegin(t, l, u)
    \/ \E t \in Txns : DeleteLotLockHero(t)
    \/ \E t \in Txns, l \in 1..MaxRelist : CloseBegin(t, "lot", l)
    \/ \E t \in Txns : CloseLockHero(t)

SpecLot == InitLot /\ [][NextLot]_vars

\* The listing of one hero, with its owner training, deleting and equipping
\* it in between.
InitListed ==
    /\ InitCommon
    /\ stash = StockOf(1)
    /\ heroes = InitHeroes

NextListed ==
    \/ \E t \in Txns, h \in 1..Len(heroes), u \in Users, p \in StartPrices :
          Len(lots) < MaxRelist /\ CreateLotBegin(t, h, u, p, 1)
    \/ \E t \in Txns : CreateLotLockHero(t)
    \/ \E t \in Txns, l \in 1..MaxRelist, u \in Users : DeleteLotBegin(t, l, u)
    \/ \E t \in Txns : DeleteLotLockHero(t)
    \/ \E t \in Txns, l \in 1..MaxRelist : CloseBegin(t, "lot", l)
    \/ \E t \in Txns : CloseLockHero(t)
    \/ \E t \in Txns, h \in 1..Len(heroes), u \in Users : StartTrainingBegin(t, h, u)
    \/ \E t \in Txns : StartTrainingCommit(t)
    \/ \E t \in Txns, h \in 1..Len(heroes), u \in Users : DeleteHeroBegin(t, h, u)
    \/ \E t \in Txns : DeleteHeroCommit(t)
    \/ \E t \in Txns, h \in 1..Len(heroes), u \in Users, i \in Items,
          sl \in SlotTypes : EquipItemBegin(t, h, u, i, sl)
    \/ \E t \in Txns : EquipItemFlush(t)

SpecListed == InitListed /\ [][NextListed]_vars

(***************************************************************************)
(* The creates alone, called as the tests call the services, with          *)
(* durations inside and outside 1..24 h.                                   *)
(***************************************************************************)
AnyDurations == {0, 1, 24, 25, 48}

NextCreate ==
    \/ Tick
    \/ \E t \in Txns, u \in Users, i \in Items, p \in StartPrices,
          d \in AnyDurations, q \in Quantities :
          Len(auctions) < MaxAuctions /\ CreateAuction(t, u, i, p, d, q)
    \/ \E t \in Txns, h \in 1..Len(heroes), u \in Users, p \in StartPrices,
          d \in AnyDurations :
          Len(lots) < MaxLots /\ CreateLotBegin(t, h, u, p, d)
    \/ \E t \in Txns : CreateLotLockHero(t)

SpecCreate == Init /\ [][NextCreate]_vars

(***************************************************************************)
(* Bids alone, on the auction and the lot that user 1 has listed, by       *)
(* clients that may send any request_id with any amount.                   *)
(***************************************************************************)
BidAmounts == {200, 300, 400}
BidRequestIds == {0, 7}

NextBid ==
    \/ \E t \in Txns, k \in Kinds, u \in Users, m \in BidAmounts,
          r \in BidRequestIds :
          (r = 0 => BidRoom) /\ BidBegin(t, k, 1, u, m, r)
    \/ \E t \in Txns : BidRoom /\ BidLockTarget(t)
    \/ \E t \in Txns : BidLockBidder(t)
    \/ \E t \in Txns : BidLockPrev(t)

SpecBid == InitMoney /\ [][NextBid]_vars

(***************************************************************************)
(* The items of a seller who owns two units: listed in one auction or in   *)
(* two, bid for, cancelled and closed.                                     *)
(***************************************************************************)
MaxListings == 2

InitItems ==
    /\ InitCommon
    /\ stash = StockOf(2)
    /\ heroes = <<>>

NextItems ==
    \/ Tick
    \/ \E t \in Txns, u \in Users, i \in Items, p \in StartPrices,
          d \in Durations, q \in Quantities :
          Len(auctions) < MaxListings /\ CreateAuction(t, u, i, p, d, q)
    \/ \E t \in Txns, a \in 1..MaxListings, u \in Users : CancelAuction(t, a, u)
    \/ \E t \in Txns, a \in 1..MaxListings : CloseBegin(t, "auction", a)
    \/ \E t \in Txns : CloseLockWinner(t)
    \/ \E t \in Txns : CloseLockSeller(t)
    \/ \E t \in Txns, a \in 1..MaxListings, u \in Users \ {1}, m \in Amounts :
          BidRoom /\ BidBegin(t, "auction", a, u, m, 0)
    \/ \E t \in Txns : BidLockBidder(t)
    \/ \E t \in Txns : BidLockPrev(t)

SpecItems == InitItems /\ [][NextItems]_vars

(***************************************************************************)
(* Auto-bids alone, set by users who can afford to raise and lower them.   *)
(***************************************************************************)
WealthyUsers ==
    [u \in Users |-> [balance |-> IF u = 1 THEN 0 ELSE 1000, reserved |-> 0]]

InitAutoBid ==
    /\ now = 0
    /\ users = WealthyUsers
    /\ ledger = EmptyBag
    /\ stash = StockOf(0)
    /\ auctions = <<[item_id |-> 1, seller_id |-> 1, start_price |-> 100,
                     current_price |-> 100, end_time |-> 1, winner_id |-> 0,
                     quantity |-> 1, status |-> ACTIVE, created_at |-> 0]>>
    /\ lots = <<[exists |-> TRUE, hero_id |-> 1, seller_id |-> 1,
                 starting_price |-> 100, current_price |-> 100, end_time |-> 1,
                 winner_id |-> 0, status |-> ACTIVE, created_at |-> 0]>>
    /\ bids = <<>>
    /\ autobids = <<>>
    /\ heroes = <<[NewHero(1) EXCEPT !.is_on_auction = TRUE]>>
    /\ txn = [t \in Txns |-> Idle]
    /\ closeRuns = [auction |-> <<0>>, lot |-> <<0>>]
    /\ ret = NoRet
    /\ InitOutside

NextAutoBid ==
    \E t \in Txns, u \in Users \ {1}, k \in Kinds, m \in BidAmounts :
       LedgerRoom /\ SetAutoBid(t, u, k, 1, m)

SpecAutoBid == InitAutoBid /\ [][NextAutoBid]_vars

\* Bids, auto-bids, closes and the cancel of users who can afford to raise
\* their own bids.
NextFunds ==
    \/ \E t \in Txns, k \in Kinds, u \in Users \ {1}, m \in Amounts :
          BidRoom /\ BidBegin(t, k, 1, u, m, 0)
    \/ \E t \in Txns : BidLockBidder(t)
    \/ \E t \in Txns : BidLockPrev(t)
    \/ \E t \in Txns, u \in AutoBidders, k \in Kinds, m \in Amounts :
          LedgerRoom /\ SetAutoBid(t, u, k, 1, m)
    \/ \E t \in Txns, k \in Kinds : CloseBegin(t, k, 1)
    \/ \E t \in Txns : CloseLockHero(t)
    \/ \E t \in Txns : CloseLockWinner(t)
    \/ \E t \in Txns : CloseLockSeller(t)
    \/ \E t \in Txns : CancelAuction(t, 1, 1)

SpecFunds == InitAutoBid /\ [][NextFunds]_vars

\* Bids and closes on the auction and on the lot at once, by two bidders who
\* can outbid each other on both.
MaxCrossBids == 3

NextCross ==
    \/ \E t \in Txns, k \in Kinds, u \in Users \ {1}, m \in Amounts :
          /\ Len(bids) < MaxCrossBids
          /\ LedgerRoom
          /\ BidBegin(t, k, 1, u, m, 0)
    \/ \E t \in Txns : BidLockBidder(t)
    \/ \E t \in Txns : BidLockPrev(t)
    \/ \E t \in Txns, k \in Kinds : CloseBegin(t, k, 1)
    \/ \E t \in Txns : CloseLockHero(t)
    \/ \E t \in Txns : CloseLockWinner(t)
    \/ \E t \in Txns : CloseLockSeller(t)

SpecCross == InitAutoBid /\ [][NextCross]_vars

(***************************************************************************)
(* distributed_lock.py: DistributedLock on one key.  Every lock object     *)
(* draws its own uuid4 as value; a Redis call can raise RedisError before  *)
(* the command reached the server or after the server executed it.         *)
(***************************************************************************)
LockTtl == 2
ExtraTtls == {0, 1, 3}
Faults == {"none", "before", "after"}

LockValue(c) == c

\* A bug acquire could have: SET without nx.
SetAlways(r, value, ttl) ==
    [key |-> [value |-> value, ttl |-> ttl], reply |-> 1]

\* SET key value NX EX ttl
SetNX(r, value, ttl) ==
    IF r.value = 0
    THEN [key |-> [value |-> value, ttl |-> ttl], reply |-> 1]
    ELSE [key |-> r, reply |-> 0]

\* A bug release could have: DEL without the comparison.
UnlockAlways(r, value) ==
    [key |-> NoKey, reply |-> IF r.value # 0 THEN 1 ELSE 0]

UnlockScript(r, value) ==
    IF r.value # 0 /\ r.value = value
    THEN [key |-> NoKey, reply |-> 1]
    ELSE [key |-> r, reply |-> 0]

ExtendScript(r, value, new_ttl) ==
    IF r.value # 0 /\ r.value = value
    THEN [key |-> [r EXCEPT !.ttl = new_ttl], reply |-> 1]
    ELSE [key |-> r, reply |-> 0]

\* The key after a call that was to leave it as done.key.
Called(fault, done) == IF fault = "before" THEN redis ELSE done.key

LockRet(op, c, err, val) ==
    [op |-> op, arg |-> c, err |-> err, val |-> val, ev |-> <<>>]

\* One redis.set of acquire, and what acquire does with its answer.
AcquireAttempt(c, blocking, fault, timed_out) ==
    LET done == SetNX(redis, LockValue(c), LockTtl) IN
    /\ redis' = Called(fault, done)
    /\ IF fault # "none"
       THEN /\ locks' = [locks EXCEPT ![c].pc = "idle"]
            /\ ret' = LockRet("acquire", c, "REDIS_ERROR", 0)
       ELSE IF done.reply = 1
       THEN /\ locks' = [locks EXCEPT
                           ![c].acquired = TRUE,
                           ![c].pc = "idle",
                           ![c].renewal = IF locks[c].auto_renewal THEN "sleeping"
                                          ELSE @]
            /\ ret' = LockRet("acquire", c, "ok", 1)
       ELSE IF blocking /\ ~timed_out
       THEN /\ locks' = [locks EXCEPT ![c].pc = "acquire"]
            /\ UNCHANGED ret
       ELSE /\ locks' = [locks EXCEPT ![c].pc = "idle"]
            /\ ret' = LockRet("acquire", c, "ok", 0)
    /\ UNCHANGED <<now, tables, txn, authVars, taskVars>>

Acquire(c, blocking, fault, timed_out) ==
    /\ locks[c].pc = "idle"
    /\ AcquireAttempt(c, blocking, fault, timed_out)

\* The next turn of the loop of a blocking acquire.
AcquireRetry(c, fault, timed_out) ==
    /\ locks[c].pc = "acquire"
    /\ AcquireAttempt(c, TRUE, fault, timed_out)

Release(c, fault) ==
    /\ locks[c].pc = "idle"
    /\ IF ~locks[c].acquired
       THEN /\ fault = "none"
            /\ ret' = LockRet("release", c, "NOT_HELD", 0)
            /\ UNCHANGED <<redis, locks>>
       ELSE LET done == UnlockScript(redis, LockValue(c)) IN
            /\ redis' = Called(fault, done)
            /\ locks' = [locks EXCEPT ![c].acquired = FALSE, ![c].renewal = "none"]
            /\ ret' = IF fault # "none"
                         THEN LockRet("release", c, "REDIS_ERROR", 0)
                      ELSE IF done.reply = 1
                         THEN LockRet("release", c, "ok", 1)
                      ELSE LockRet("release", c, "MISMATCH", 0)
    /\ UNCHANGED <<now, tables, txn, authVars, taskVars>>

NewTtl(additional_ttl) == IF additional_ttl # 0 THEN additional_ttl ELSE LockTtl

Extend(c, additional_ttl, fault) ==
    /\ locks[c].pc = "idle"
    /\ IF ~locks[c].acquired
       THEN /\ fault = "none"
            /\ ret' = LockRet("extend", c, "NOT_HELD", 0)
            /\ UNCHANGED <<redis, locks>>
       ELSE LET done == ExtendScript(redis, LockValue(c), NewTtl(additional_ttl)) IN
            /\ redis' = Called(fault, done)
            /\ IF fault # "none"
               THEN /\ ret' = LockRet("extend", c, "REDIS_ERROR", 0)
                    /\ UNCHANGED locks
               ELSE IF done.reply = 1
               THEN /\ ret' = LockRet("extend", c, "ok", 1)
                    /\ UNCHANGED locks
               ELSE /\ ret' = LockRet("extend", c, "MISMATCH", 0)
                    /\ locks' = [locks EXCEPT ![c].acquired = FALSE]
    /\ UNCHANGED <<now, tables, txn, authVars, taskVars>>

\* A second passes in Redis; a key whose time is up is gone.
LockExpiry ==
    /\ redis.value # 0
    /\ redis' = IF redis.ttl <= 1 THEN NoKey ELSE [redis EXCEPT !.ttl = @ - 1]
    /\ UNCHANGED <<now, tables, txn, ret, locks, authVars, taskVars>>

InitLocks == InitCommon /\ stash = StockOf(0) /\ heroes = <<>>

\* The lock while no key expires.
NextHeld ==
    \/ \E c \in LockClients, b \in BOOLEAN, f \in Faults, to \in BOOLEAN :
          Acquire(c, b, f, to)
    \/ \E c \in LockClients, f \in Faults, to \in BOOLEAN : AcquireRetry(c, f, to)
    \/ \E c \in LockClients, f \in Faults : Release(c, f)
    \/ \E c \in LockClients, a \in ExtraTtls, f \in Faults : Extend(c, a, f)

SpecHeld == InitLocks /\ [][NextHeld]_vars

NextLock ==
    \/ NextHeld
    \/ LockExpiry

SpecLock == InitLocks /\ [][NextLock]_vars

\* DistributedLock(redis, key, ttl, auto_renewal=True): the object of client
\* c, not used yet, is one that renews its lease.
ConstructAutoRenewal(c) ==
    /\ locks[c] = NewLock
    /\ locks' = [locks EXCEPT ![c].auto_renewal = TRUE]
    /\ UNCHANGED <<now, tables, txn, ret, redis, authVars, taskVars>>

\* One turn of _renew_loop: the sleep of renewal_interval is over and the
\* task calls extend(); it sleeps again if extend returned True and the
\* object is still marked as holder, and ends otherwise.
RenewLoop(c, fault) ==
    /\ locks[c].renewal = "sleeping"
    /\ IF ~locks[c].acquired
       THEN /\ fault = "none"
            /\ ret' = LockRet("renew", c, "NOT_HELD", 0)
            /\ locks' = [locks EXCEPT ![c].renewal = "done"]
            /\ UNCHANGED redis
       ELSE LET done == ExtendScript(redis, LockValue(c), NewTtl(0)) IN
            /\ redis' = Called(fault, done)
            /\ IF fault # "none"
               THEN /\ ret' = LockRet("renew", c, "REDIS_ERROR", 0)
                    /\ locks' = [locks EXCEPT ![c].renewal = "done"]
               ELSE IF done.reply = 1
               THEN /\ ret' = LockRet("renew", c, "ok", 1)
                    /\ UNCHANGED locks
               ELSE /\ ret' = LockRet("renew", c, "MISMATCH", 0)
                    /\ locks' = [locks EXCEPT ![c].acquired = FALSE,
                                              ![c].renewal = "done"]
    /\ UNCHANGED <<now, tables, txn, authVars, taskVars>>

\* The lock of objects that renew their lease.
RenewClients == {1, 2}

NextRenew ==
    \/ \E c \in RenewClients : ConstructAutoRenewal(c)
    \/ \E c \in RenewClients, b \in BOOLEAN, f \in Faults, to \in BOOLEAN :
          Acquire(c, b, f, to)
    \/ \E c \in RenewClients, f \in Faults, to \in BOOLEAN : AcquireRetry(c, f, to)
    \/ \E c \in RenewClients, f \in Faults : Release(c, f)
    \/ \E c \in RenewClients, f \in Faults : Extend(c, 0, f)
    \/ \E c \in RenewClients, f \in Faults : RenewLoop(c, f)
    \/ LockExpiry

SpecRenew == InitLocks /\ [][NextRenew]_vars

(***************************************************************************)
(* utils/jwt.py, services/auth.py, auth/__init__.py: the tokens.  A token  *)
(* is its claims and the key it is signed with; time is counted in token   *)
(* lifetimes; clients present the tokens that were issued to them and      *)
(* tokens that somebody else signed.                                       *)
(***************************************************************************)
MaxAuthNow == 3
MaxTokens == 5
AccessLife == 1
RefreshLife == 2
AuthUsers == {1, 2}
JWT_SECRET_KEY == "supersecretkey"

RoleOf(u) == IF u = 1 THEN "admin" ELSE "user"

None == [sub |-> 0, role |-> "", type |-> "", family |-> 0, exp |-> 0, key |-> ""]

Encode(claims, key) == [claims EXCEPT !.key = key]

ForgedTokens ==
    {Encode([sub |-> 1, role |-> "admin", type |-> ty, family |-> 0,
             exp |-> MaxAuthNow + RefreshLife, key |-> ""], "guess") :
        ty \in {"access", "refresh"}}

Presentable == tokens \cup ForgedTokens

create_access_token(data) ==
    Encode([data EXCEPT !.exp = now + AccessLife, !.type = "access"],
           JWT_SECRET_KEY)

\* uuid4: a family no token carries yet.
NewFamily == 1 + Cardinality({tok.family : tok \in tokens} \ {0})

create_refresh_token(data, family_id) ==
    Encode([data EXCEPT !.exp = now + RefreshLife, !.type = "refresh",
                        !.family = IF family_id # 0 THEN family_id ELSE NewFamily],
           JWT_SECRET_KEY)

\* jose.jwt.decode: the signature, then exp.
jwt_decode(token, key) ==
    IF token.key = key /\ token.exp >= now THEN token ELSE None

\* A bug decode_access_token could have: the type is not looked at.
decode_any_token(token) ==
    jwt_decode(token, JWT_SECRET_KEY)

decode_access_token(token) ==
    IF jwt_decode(token, JWT_SECRET_KEY).type # "access"
    THEN None
    ELSE jwt_decode(token, JWT_SECRET_KEY)

decode_refresh_token(token) ==
    IF jwt_decode(token, JWT_SECRET_KEY).type # "refresh"
    THEN None
    ELSE jwt_decode(token, JWT_SECRET_KEY)

TokenData(sub, role) ==
    [sub |-> sub, role |-> role, type |-> "", family |-> 0, exp |-> 0, key |-> ""]

AuthRet(op, token, err, val) ==
    [op |-> op, arg |-> token, err |-> err, val |-> val, ev |-> <<>>]

generate_tokens(u) ==
    LET access == create_access_token(TokenData(u, RoleOf(u)))
        refresh == create_refresh_token(TokenData(u, RoleOf(u)), 0)
    IN  /\ tokens' = tokens \cup {access, refresh}
        /\ ret' = AuthRet("generate_tokens", None, "ok", refresh)
        /\ UNCHANGED <<now, tables, txn, lockVars, refreshed, taskVars>>

refresh_access_token(refresh_token) ==
    LET payload == decode_refresh_token(refresh_token) IN
    /\ IF payload = None \/ payload.sub = 0 \/ payload.role = ""
       THEN /\ ret' = AuthRet("refresh_access_token", refresh_token, "INVALID_TOKEN", None)
            /\ UNCHANGED <<tokens, refreshed>>
       ELSE LET new_access == create_access_token(TokenData(payload.sub, payload.role))
                new_refresh == create_refresh_token(
                                   TokenData(payload.sub, payload.role), payload.family)
            IN  /\ tokens' = tokens \cup {new_access, new_refresh}
                /\ refreshed' = refreshed \cup {[old |-> refresh_token, new |-> new_refresh]}
                /\ ret' = AuthRet("refresh_access_token", refresh_token, "ok", new_refresh)
    /\ UNCHANGED <<now, tables, txn, lockVars, taskVars>>

get_current_user_info(token) ==
    LET payload == decode_access_token(token) IN
    /\ ret' = IF payload = None \/ payload.sub = 0 \/ payload.role = ""
                THEN AuthRet("get_current_user_info", token, "INVALID_TOKEN", None)
                ELSE AuthRet("get_current_user_info", token, "ok",
                             TokenData(payload.sub, payload.role))
    /\ UNCHANGED <<now, tables, txn, lockVars, authVars, taskVars>>

AuthTick ==
    /\ now < MaxAuthNow
    /\ now' = now + 1
    /\ UNCHANGED <<tables, txn, ret, lockVars, authVars, taskVars>>

InitAuth == InitCommon /\ stash = StockOf(0) /\ heroes = <<>>

NextAuth ==
    \/ \E u \in AuthUsers :
          Cardinality(tokens) < MaxTokens /\ generate_tokens(u)
    \/ \E token \in Presentable :
          Cardinality(tokens) < MaxTokens /\ refresh_access_token(token)
    \/ \E token \in Presentable : get_current_user_info(token)
    \/ AuthTick

SpecAuth == InitAuth /\ [][NextAuth]_vars

(***************************************************************************)
(* core/events.py: subscribe and emit.  A callback returns, raises an      *)
(* Exception, or raises a BaseException that is no Exception, as a         *)
(* coroutine does with asyncio.CancelledError when its task is cancelled.  *)
(***************************************************************************)
MaxSubscribers == 3
Callbacks == {1, 2}
Outcomes == {"returns", "raises", "cancelled"}

BusRet(err) == [op |-> "emit", arg |-> 0, err |-> err, val |-> 0, ev |-> <<>>]

subscribe(event_name, callback) ==
    /\ bus' = [bus EXCEPT !.subscribers[event_name] = Append(@, callback)]
    /\ UNCHANGED <<now, tables, txn, ret, lockVars, authVars, sweeper, cache>>

\* handlers = list(_subscribers.get(event_name, []))
EmitBegin(event_name) ==
    /\ bus.pc = "idle"
    /\ LET handlers == bus.subscribers[event_name] IN
       IF handlers = <<>>
       THEN /\ bus' = [bus EXCEPT !.event = event_name, !.handlers = <<>>,
                                  !.idx = 0, !.calls = <<>>]
            /\ ret' = BusRet("ok")
       ELSE /\ bus' = [bus EXCEPT !.pc = "emit", !.event = event_name,
                                  !.handlers = handlers, !.idx = 1, !.calls = <<>>]
            /\ UNCHANGED ret
    /\ UNCHANGED <<now, tables, txn, lockVars, authVars, sweeper, cache>>

\* A bug emit could have: no try around the call of the handler.
EmitCallUnguarded(outcome) ==
    /\ bus.pc = "emit"
    /\ LET called == Append(bus.calls, [callback |-> bus.handlers[bus.idx],
                                        outcome |-> outcome])
       IN  IF outcome # "returns"
           THEN /\ bus' = [bus EXCEPT !.pc = "idle", !.calls = called]
                /\ ret' = BusRet(outcome)
           ELSE IF bus.idx = Len(bus.handlers)
           THEN /\ bus' = [bus EXCEPT !.pc = "idle", !.calls = called]
                /\ ret' = BusRet("ok")
           ELSE /\ bus' = [bus EXCEPT !.idx = @ + 1, !.calls = called]
                /\ UNCHANGED ret
    /\ UNCHANGED <<now, tables, txn, lockVars, authVars, sweeper, cache>>

\* One turn of "for handler in handlers": the handler is called inside
\* try ... except Exception: pass.
EmitCall(outcome) ==
    /\ bus.pc = "emit"
    /\ LET called == Append(bus.calls, [callback |-> bus.handlers[bus.idx],
                                        outcome |-> outcome])
       IN  IF outcome = "cancelled"
           THEN /\ bus' = [bus EXCEPT !.pc = "idle", !.calls = called]
                /\ ret' = BusRet("CancelledError")
           ELSE IF bus.idx = Len(bus.handlers)
           THEN /\ bus' = [bus EXCEPT !.pc = "idle", !.calls = called]
                /\ ret' = BusRet("ok")
           ELSE /\ bus' = [bus EXCEPT !.idx = @ + 1, !.calls = called]
                /\ UNCHANGED ret
    /\ UNCHANGED <<now, tables, txn, lockVars, authVars, sweeper, cache>>

InitBus == InitCommon /\ stash = StockOf(0) /\ heroes = <<>>

NextBus ==
    \/ \E e \in EventNames, cb \in Callbacks :
          Len(bus.subscribers[e]) < MaxSubscribers /\ subscribe(e, cb)
    \/ \E e \in EventNames : EmitBegin(e)
    \/ \E o \in Outcomes : EmitCall(o)

SpecBus == InitBus /\ [][NextBus]_vars

(***************************************************************************)
(* tasks/auctions.py: close_expired_auctions_task as a task of the event   *)
(* loop.  Each instance goes round "while True": the sleep, the session    *)
(* and its transaction, the SELECT of the expired auctions, one            *)
(* close_auction per row inside try ... except Exception, and the commit   *)
(* on leaving the blocks.  A statement outside that try can raise, and an  *)
(* exception that leaves the coroutine ends the task.                      *)
(***************************************************************************)
MaxBatch == 2
MaxRuns == 2

Faulty == {FALSE, TRUE}
CloseOutcomes == {"returns", "raises"}

\* The instance is between its sleep and the end of its transaction.
InSweepBody(i) == sweeper[i].pc \in {"session", "select", "close"}

\* await asyncio.sleep(60) returns.
SweeperWake(i) ==
    /\ sweeper[i].pc = "sleep"
    /\ sweeper' = [sweeper EXCEPT ![i].pc = "session"]
    /\ UNCHANGED <<now, tables, txn, ret, lockVars, authVars, bus, cache>>

\* async with AsyncSessionLocal() as session: async with session.begin():
SweeperOpen(i, fault) ==
    /\ sweeper[i].pc = "session"
    /\ sweeper' = [sweeper EXCEPT ![i].pc = IF fault THEN "dead" ELSE "select"]
    /\ UNCHANGED <<now, tables, txn, ret, lockVars, authVars, bus, cache>>

\* The SELECT ... FOR UPDATE SKIP LOCKED of the expired auctions: n rows.
SweeperSelect(i, n, fault) ==
    /\ sweeper[i].pc = "select"
    /\ sweeper' = IF fault THEN [sweeper EXCEPT ![i].pc = "dead"]
                  ELSE [sweeper EXCEPT ![i].pc = "close", ![i].batch = n]
    /\ UNCHANGED <<now, tables, txn, ret, lockVars, authVars, bus, cache>>

\* One turn of "for auction in expired_auctions": close_auction and the
\* notifications, inside try ... except Exception, which logs the error.
SweeperClose(i, outcome) ==
    /\ sweeper[i].pc = "close"
    /\ sweeper[i].batch > 0
    /\ sweeper' = [sweeper EXCEPT ![i].batch = @ - 1]
    /\ UNCHANGED <<now, tables, txn, ret, lockVars, authVars, bus, cache>>

\* The loop is over: leaving session.begin() commits, and the task sleeps.
SweeperCommit(i, fault) ==
    /\ sweeper[i].pc = "close"
    /\ sweeper[i].batch = 0
    /\ sweeper' = IF fault THEN [sweeper EXCEPT ![i].pc = "dead"]
                  ELSE [sweeper EXCEPT ![i].pc = "sleep", ![i].runs = @ + 1]
    /\ UNCHANGED <<now, tables, txn, ret, lockVars, authVars, bus, cache>>

InitSweeper == InitCommon /\ stash = StockOf(0) /\ heroes = <<>>

NextSweeper ==
    \E i \in SweeperInstances :
       \/ sweeper[i].runs < MaxRuns /\ SweeperWake(i)
       \/ \E fault \in Faulty : SweeperOpen(i, fault)
       \/ \E n \in 0..MaxBatch, fault \in Faulty : SweeperSelect(i, n, fault)
       \/ \E o \in CloseOutcomes : SweeperClose(i, o)
       \/ \E fault \in Faulty : SweeperCommit(i, fault)

SpecSweeper == InitSweeper /\ [][NextSweeper]_vars

(***************************************************************************)
(* core/redis_cache.py: RedisCache and the handler of cache_invalidate.    *)
(* A key is the sequence of its parts, so that one key starts with another *)
(* when the parts of the other are its first parts; a pattern is a prefix  *)
(* and whether a * follows it.  The Redis server is shared: its keys can   *)
(* be set by other clients than this process.                              *)
(***************************************************************************)
CacheKeys ==
    {<<"auctions:active">>, <<"auctions:active", ":10:0">>,
     <<"auctions:active", "_lots", ":10:0">>, <<"heroes", ":1">>}

\* The keys the services delete or emit: services/auction.py:74,
\* auction_lot.py:61, bid.py:253.
Patterns ==
    {[prefix |-> <<"auctions:active">>, glob |-> FALSE],
     [prefix |-> <<"auctions:active">>, glob |-> TRUE],
     [prefix |-> <<"auctions:active", "_lots">>, glob |-> TRUE]}

StartsWith(key, prefix) ==
    /\ Len(prefix) <= Len(key)
    /\ SubSeq(key, 1, Len(prefix)) = prefix

\* What KEYS pattern answers, and what DEL of one key removes.
Matching(store, pattern) ==
    IF pattern.glob THEN {k \in store : StartsWith(k, pattern.prefix)}
    ELSE {k \in store : k = pattern.prefix}

CacheRet(op, val) == [op |-> op, arg |-> 0, err |-> "ok", val |-> val, ev |-> <<>>]

\* RedisCache.connect: "Redis stub: do not connect".
CacheConnect ==
    /\ ret' = CacheRet("cache_connect", 0)
    /\ UNCHANGED <<now, tables, txn, lockVars, authVars, taskVars>>

\* RedisCache.get: "always return None"; val 1 would be a hit.
CacheGet(key) ==
    /\ ret' = CacheRet("cache_get", 0)
    /\ UNCHANGED <<now, tables, txn, lockVars, authVars, taskVars>>

\* RedisCache.set: "no-op".
CacheSet(key) ==
    /\ ret' = CacheRet("cache_set", 0)
    /\ UNCHANGED <<now, tables, txn, lockVars, authVars, taskVars>>

\* RedisCache.delete: nothing without a client, the keys of the pattern or
\* the one key with one.
RedisCacheDelete(c, pattern) ==
    IF ~c.client THEN c
    ELSE [c EXCEPT !.store = @ \ Matching(@, pattern)]

\* _invalidate_handler(key), the subscriber of cache_invalidate.
InvalidateHandler(pattern) ==
    /\ cache' = RedisCacheDelete(cache, pattern)
    /\ ret' = CacheRet("cache_invalidate", Cardinality(Matching(cache.store, pattern)))
    /\ UNCHANGED <<now, tables, txn, lockVars, authVars, bus, sweeper>>

\* Another client of the Redis server sets a key.
ForeignSet(key) ==
    /\ key \notin cache.store
    /\ cache' = [cache EXCEPT !.store = @ \cup {key}]
    /\ UNCHANGED <<now, tables, txn, ret, lockVars, authVars, bus, sweeper>>

\* The key's expire has run out.
CacheExpire(key) ==
    /\ key \in cache.store
    /\ cache' = [cache EXCEPT !.store = @ \ {key}]
    /\ UNCHANGED <<now, tables, txn, ret, lockVars, authVars, bus, sweeper>>

InitCache == InitCommon /\ stash = StockOf(0) /\ heroes = <<>>

NextCache ==
    \/ CacheConnect
    \/ \E k \in CacheKeys : CacheGet(k)
    \/ \E k \in CacheKeys : CacheSet(k)
    \/ \E p \in Patterns : InvalidateHandler(p)
    \/ \E k \in CacheKeys : ForeignSet(k)
    \/ \E k \in CacheKeys : CacheExpire(k)

SpecCache == InitCache /\ [][NextCache]_vars

(***************************************************************************)
(* Properties.                                                             *)
(***************************************************************************)
\* The field an adjust_balance call posts to, told by the type it records:
\* the ledger row itself has no field column.
LedgerField(tx_type) ==
    IF tx_type \in {"auction_payout", "hero_generation"} THEN "balance"
    ELSE "reserved"

RECURSIVE SumRows(_, _)
SumRows(rows, l) ==
    IF rows = {} THEN 0
    ELSE LET r == CHOOSE x \in rows : TRUE
         IN  r.amount * CopiesIn(r, l) + SumRows(rows \ {r}, l)

\* The sum of the ledger amounts of a user recorded for a field.
LedgerSum(l, user_id, field) ==
    SumRows({r \in BagToSet(l) : r.user_id = user_id /\ LedgerField(r.type) = field}, l)

\* C1: conservation of money.  In every committed state, for every user the
\* balance is the opening balance plus the sum of the user's ledger amounts
\* for the balance, and reserved is the sum of the user's ledger amounts for
\* reserved: no operation changes either without the matching ledger row.
C1_Conservation ==
    \A u \in Users :
        /\ users[u].balance = InitUsers[u].balance + LedgerSum(ledger, u, "balance")
        /\ users[u].reserved = InitUsers[u].reserved + LedgerSum(ledger, u, "reserved")

\* A close has paid the seller and a hero was paid for: both fields moved.
C1_Witness ==
    /\ \E r \in BagToSet(ledger) : r.type = "auction_payout" /\ r.amount > 0
    /\ \E r \in BagToSet(ledger) : r.type = "hero_generation" /\ r.amount < 0
    /\ \E r \in BagToSet(ledger) : r.type = "auction_release_reserved"

C3_CloseAtMostOnce ==
    \A kind \in Kinds : \A id \in DOMAIN closeRuns[kind] :
        /\ closeRuns[kind][id] <= 1
        /\ RowExists(DB, kind, id) =>
              (Table(DB, kind)[id].status = FINISHED <=> closeRuns[kind][id] = 1)

\* A close holds the row of an auction that was expired from its creation,
\* and a sweeper that ran meanwhile has returned: it skipped the locked row.
C3_Witness ==
    /\ auctions # <<>>
    /\ auctions[1].end_time = auctions[1].created_at
    /\ \E t \in Txns : /\ txn[t].op \in {"close", "sweep"}
                       /\ Row("auction", 1, 0) \in txn[t].held
    /\ ret.op = "sweep"

TableNext(kind) == IF kind = "auction" THEN auctions' ELSE lots'

\* This step commits the close of the row: ACTIVE becomes FINISHED.
Closing(kind, id) ==
    /\ RowExists(DB, kind, id)
    /\ Table(DB, kind)[id].status = ACTIVE
    /\ TableNext(kind)[id].status = FINISHED

\* The winning bids <<bidder, amount>> the close that commits in this step had
\* read for the row: none when it had found no Bid.
Awarded(kind, id) ==
    {<<txn[t].hb_bidder, txn[t].hb_amount>> :
        t \in {x \in Txns : /\ txn[x].op = "close"
                            /\ txn[x].pc = "lock_seller"
                            /\ txn[x].kind = kind
                            /\ txn[x].id = id
                            /\ txn'[x] = Idle}}
    \cup
    {<<txn[t[1]].pend[t[2]].hb_bidder, txn[t[1]].pend[t[2]].hb_amount>> :
        t \in {x \in Txns \X (1..MaxAuctions + 1) :
                            /\ kind = "auction"
                            /\ txn[x[1]].op = "sweep"
                            /\ txn'[x[1]] = Idle
                            /\ x[2] \in DOMAIN txn[x[1]].pend
                            /\ txn[x[1]].pend[x[2]].id = id
                            /\ txn[x[1]].pend[x[2]].hb_bidder # 0}}

\* C4: close with a winning bid.  When the close of an ACTIVE auction or lot
\* whose highest bid is A by W commits, W.reserved goes down by A, the
\* seller's balance goes up by A, the asset goes to W (the stash of W grows by
\* the quantity; the hero is owned by W and no longer listed), winner_id is W
\* and the status is FINISHED.
C4_CloseWithWinner ==
    [][\A kind \in Kinds : \A id \in DOMAIN Table(DB, kind) :
          \A wa \in Awarded(kind, id) :
             Closing(kind, id) =>
                LET W == wa[1]
                    A == wa[2]
                    row == Table(DB, kind)[id]
                IN  /\ users'[W].reserved = users[W].reserved - A
                    /\ users'[row.seller_id].balance = users[row.seller_id].balance + A
                    /\ kind = "auction" =>
                          stash'[W][row.item_id] = stash[W][row.item_id] + row.quantity
                    /\ kind = "lot" =>
                          /\ heroes'[row.hero_id].owner_id = W
                          /\ ~heroes'[row.hero_id].is_on_auction
                    /\ TableNext(kind)[id].winner_id = W
                    /\ TableNext(kind)[id].status = FINISHED]_vars

\* An item auction was closed for a bidder: the seller is paid, the bidder
\* has the item and no reservation left.
C4_Witness ==
    /\ auctions # <<>>
    /\ auctions[1].status = FINISHED
    /\ auctions[1].winner_id \in Users \ {auctions[1].seller_id}
    /\ stash[auctions[1].winner_id][auctions[1].item_id] = auctions[1].quantity
    /\ users[auctions[1].seller_id].balance = auctions[1].current_price
    /\ users[auctions[1].winner_id].reserved = 0

\* C5: close without bids.  When the close of an ACTIVE auction or lot that
\* has no Bid commits, the asset returns to the seller (the seller's stash
\* grows by the quantity; the hero keeps its owner and is no longer listed),
\* the status is FINISHED, and no balance, reserved or ledger row changes.
C5_CloseWithoutBids ==
    [][\A kind \in Kinds : \A id \in DOMAIN Table(DB, kind) :
          (Closing(kind, id) /\ Awarded(kind, id) = {}) =>
             LET row == Table(DB, kind)[id]
             IN  /\ kind = "auction" =>
                       stash'[row.seller_id][row.item_id]
                          = stash[row.seller_id][row.item_id] + row.quantity
                 /\ kind = "lot" =>
                       /\ heroes'[row.hero_id].owner_id = heroes[row.hero_id].owner_id
                       /\ ~heroes'[row.hero_id].is_on_auction
                 /\ TableNext(kind)[id].status = FINISHED
                 /\ users' = users
                 /\ ledger' = ledger]_vars

\* A lot without bids was closed: the hero is the seller's again, unlisted,
\* and no money moved.
C5_Witness ==
    /\ lots # <<>>
    /\ lots[1].exists
    /\ lots[1].status = FINISHED
    /\ bids = <<>>
    /\ heroes[lots[1].hero_id].owner_id = lots[1].seller_id
    /\ ~heroes[lots[1].hero_id].is_on_auction
    /\ ledger = EmptyBag
    /\ users = InitUsers

RowsOfRequest(bs, request_id) ==
    {i \in DOMAIN bs : bs[i].exists /\ bs[i].request_id = request_id}

\* C6: idempotent bidding.  A bid that is recorded raises the reserved of its
\* bidder by its amount.  Once the Bid of a request_id is recorded, a further
\* call with that request_id opens no transaction: it returns the id of that
\* Bid and changes nothing, so one row has the request_id and the reserved of
\* the bidder has gone up by the amount once over both calls.
C6_IdempotentBid ==
    [][/\ Len(bids') = Len(bids) + 1 =>
             LET b == bids'[Len(bids')]
             IN  users'[b.bidder_id].reserved = users[b.bidder_id].reserved + b.amount
       /\ \A r \in Amounts :
             BidByRequest(bids, r) # 0 =>
                /\ \A t \in Txns :
                      txn[t].pc = "idle" =>
                         ~(txn'[t].op = "place_bid" /\ txn'[t].rid = r)
                /\ (/\ txn' = txn
                    /\ now' = now
                    /\ ret'.op = "place_bid"
                    /\ ret'.arg = r) =>
                      /\ ret'.err = "ok"
                      /\ ret'.val = BidByRequest(bids, r)
                      /\ UNCHANGED tables
                      /\ Cardinality(RowsOfRequest(bids', r)) = 1]_vars

\* Bid 1 carries a request_id, another bid was recorded after it, and the
\* call that returned last is a bid with that request_id, answered with
\* Bid 1: a retry.
C6_Witness ==
    /\ Len(bids) >= 2
    /\ bids[1].exists
    /\ bids[1].request_id # 0
    /\ ret = [op |-> "place_bid", arg |-> bids[1].request_id, err |-> "ok", val |-> 1,
              ev |-> <<>>]
    /\ users[bids[1].bidder_id].reserved = 0

\* C7: monotonic status.  The status of an auction or lot changes only from
\* ACTIVE to FINISHED or, for an auction, to CANCELLED; once it is not ACTIVE
\* no step changes it.
C7_MonotonicStatus ==
    [][/\ \A a \in DOMAIN auctions :
             /\ auctions[a].status # ACTIVE => auctions'[a].status = auctions[a].status
             /\ auctions'[a].status \in {auctions[a].status, FINISHED, CANCELLED}
       /\ \A l \in DOMAIN lots :
             (lots[l].exists /\ lots'[l].exists) =>
                /\ lots[l].status # ACTIVE => lots'[l].status = lots[l].status
                /\ lots'[l].status \in {lots[l].status, FINISHED}]_vars

\* A close was called on a cancelled auction and returned: it is still
\* CANCELLED.
C7_Witness ==
    /\ auctions # <<>>
    /\ auctions[1].status = CANCELLED
    /\ ret.op = "close"
    /\ ret.val = 1

\* C8: at most one active lot per hero.  No state holds two lots of the same
\* hero that are both ACTIVE.
C8_OneActiveLot ==
    \A l1 \in DOMAIN lots : \A l2 \in DOMAIN lots :
        (/\ l1 # l2
         /\ lots[l1].exists
         /\ lots[l2].exists
         /\ lots[l1].hero_id = lots[l2].hero_id)
           => ~(lots[l1].status = ACTIVE /\ lots[l2].status = ACTIVE)

\* A createLot that had passed the check for an ACTIVE lot found the hero
\* listed by a concurrent createLot and was rejected.
C8_Witness ==
    /\ ret.op = "create_lot"
    /\ ret.err = "ON_AUCTION"
    /\ ActiveLotExists(lots, 1)
    /\ Len(lots) >= 2

MaxBidOf(bs, kind, id) ==
    CHOOSE m \in {bs[i].amount : i \in BidsOf(bs, kind, id)} :
        \A i \in BidsOf(bs, kind, id) : bs[i].amount <= m

PriceIsHighestBid ==
    \A kind \in Kinds : \A id \in DOMAIN Table(DB, kind) :
        (RowExists(DB, kind, id) /\ BidsOf(bids, kind, id) # {}) =>
           /\ Table(DB, kind)[id].current_price = MaxBidOf(bids, kind, id)
           /\ \E i \in BidsOf(bids, kind, id) :
                 /\ bids[i].amount = MaxBidOf(bids, kind, id)
                 /\ bids[i].bidder_id = Table(DB, kind)[id].winner_id

\* C9: the highest bid is the price and the winner.  In every state, an
\* auction or lot that has a Bid has current_price equal to its highest Bid
\* amount and winner_id equal to the bidder of that Bid; and a close awards
\* that bidder at that amount.
C9_HighestBidIsPrice ==
    [][/\ PriceIsHighestBid
       /\ \A kind \in Kinds : \A id \in DOMAIN Table(DB, kind) :
             (Closing(kind, id) /\ BidsOf(bids, kind, id) # {}) =>
                Awarded(kind, id) = {<<Table(DB, kind)[id].winner_id,
                                       Table(DB, kind)[id].current_price>>}]_vars

Clamp(d, lo, hi) == IF d < lo THEN lo ELSE IF d > hi THEN hi ELSE d

\* C10: duration clamping.  Every create of an auction or lot that is
\* accepted with duration d gives the row end_time - created_at =
\* clamp(d, 1, 24) hours.
C10_DurationClamped ==
    [][\A kind \in Kinds :
          Len(TableNext(kind)) = Len(Table(DB, kind)) + 1 =>
             LET row == TableNext(kind)[Len(TableNext(kind))]
             IN  row.end_time - row.created_at
                    = Clamp(ret'.arg, 1, MAX_AUCTION_DURATION_HOURS)]_vars

CountOf(seq, e) == Cardinality({i \in DOMAIN seq : seq[i] = e})

\* C11: cache invalidation exactly on success.  A create, cancel or close of
\* an item auction, or a createLot, deleteLot or closeLot, that succeeds has
\* emitted cache_invalidate with the key "auctions:active*" exactly once; one
\* that fails has emitted none.
C11_CacheInvalidation ==
    ret.op \in {"create_auction", "cancel_auction", "close", "create_lot",
                "delete_lot"} =>
        CountOf(ret.ev, CacheInvalidate("auctions:active*"))
            = IF ret.err = "ok" THEN 1 ELSE 0

\* This step ends a pass of the sweeper run by session t: the pass found
\* nothing to close and returned at once, or it commits.
SweepPassEnds(t) ==
    /\ now' = now
    /\ ret'.op = "sweep"
    /\ txn'[t] = Idle
    /\ \A o \in Txns \ {t} : txn'[o] = txn[o]
    /\ txn[t].op \in {"idle", "sweep"}

\* C12: the sweeper closes what has expired.  When a pass of the sweeper
\* ends, every item auction it had selected, and every hero lot that is
\* ACTIVE with end_time <= now and not locked by another transaction, is
\* FINISHED.
C12_SweepClosesExpired ==
    [][\A t \in Txns :
          SweepPassEnds(t) =>
             /\ \A i \in DOMAIN txn[t].batch :
                   auctions'[txn[t].batch[i]].status = FINISHED
             /\ \A l \in DOMAIN lots :
                   (/\ lots[l].exists
                    /\ lots[l].status = ACTIVE
                    /\ lots[l].end_time <= now
                    /\ Free(t, Row("lot", l, 0)))
                      => lots'[l].status = FINISHED]_vars

\* This step is the return of a call of op made by session t.
Returns(t, op) ==
    /\ now' = now
    /\ ret'.op = op
    /\ txn'[t] = Idle
    /\ \A o \in Txns \ {t} : txn'[o] = txn[o]
    /\ txn[t].op \in {"idle", op}

\* C13: rejected bids change nothing.  A bid is recorded only for a bidder
\* who is not the seller, with an amount above current_price and within the
\* bidder's balance - reserved; a bid of the seller is answered SELF_BID, one
\* not above the price BID_TOO_LOW, one beyond the funds INSUFFICIENT_FUNDS;
\* and a placeBid that fails, at whatever step, leaves every table as it was.
C13_RejectedBidChangesNothing ==
    [][/\ Len(bids') = Len(bids) + 1 =>
             LET b == bids'[Len(bids')]
                 kind == IF b.auction_id # 0 THEN "auction" ELSE "lot"
                 row == Table(DB, kind)[TargetOf(b, kind)]
             IN  /\ b.bidder_id # row.seller_id
                 /\ b.amount > row.current_price
                 /\ users[b.bidder_id].balance - users[b.bidder_id].reserved >= b.amount
       /\ \A t \in Txns :
             Returns(t, "place_bid") =>
                /\ ret'.err # "ok" => UNCHANGED tables
                /\ txn[t].op = "place_bid" =>
                      LET r == txn[t]
                          row == Table(DB, r.kind)[r.id]
                      IN  /\ (r.pc = "lock_target" /\ row.status = ACTIVE
                                 /\ row.end_time >= now) =>
                                /\ r.user = row.seller_id => ret'.err = "SELF_BID"
                                /\ (r.user # row.seller_id
                                       /\ r.amount <= row.current_price)
                                      => ret'.err = "BID_TOO_LOW"
                          /\ (r.pc = "lock_bidder"
                                 /\ users[r.user].balance - users[r.user].reserved
                                       < r.amount)
                                => ret'.err = "INSUFFICIENT_FUNDS"]_vars

\* A bid failed at its last statement, the insert of a request_id that a
\* concurrent bid had committed, while bids of two bidders stand.
C13_Witness ==
    /\ ret.op = "place_bid"
    /\ ret.err = "CONFLICT"
    /\ \E i \in DOMAIN bids : \E j \in DOMAIN bids :
          /\ bids[i].auction_id = bids[j].auction_id
          /\ bids[i].lot_id = bids[j].lot_id
          /\ bids[i].bidder_id # bids[j].bidder_id

\* C14: cancel rules.  An auction becomes CANCELLED only from ACTIVE, with
\* current_price = start_price and end_time > now, and in that step the
\* seller's stash of the item grows by the auction's quantity; a cancel that
\* fails changes neither the auctions nor the stash.
C14_CancelRules ==
    [][/\ \A a \in DOMAIN auctions :
             (auctions[a].status # CANCELLED /\ auctions'[a].status = CANCELLED) =>
                /\ auctions[a].status = ACTIVE
                /\ auctions[a].current_price = auctions[a].start_price
                /\ auctions[a].end_time > now
                /\ stash'[auctions[a].seller_id][auctions[a].item_id]
                      = stash[auctions[a].seller_id][auctions[a].item_id]
                           + auctions[a].quantity
       /\ \A t \in Txns :
             (Returns(t, "cancel_auction") /\ ret'.err # "ok")
                => UNCHANGED <<auctions, stash>>]_vars

\* C15: double close and double cancel are idempotent.  A close of an auction
\* or lot that is not ACTIVE, and a cancel by the seller of an auction that is
\* already CANCELLED, succeeds, returns the row, and changes no table.
C15_DoubleCloseCancelIdempotent ==
    [][\A t \in Txns :
          /\ \A k \in Kinds : \A id \in DOMAIN Table(DB, k) :
                (RowExists(DB, k, id) /\ Table(DB, k)[id].status # ACTIVE
                    /\ CloseBegin(t, k, id))
                   => (ret'.err = "ok" /\ ret'.val = id /\ UNCHANGED tables)
          /\ \A id \in DOMAIN auctions :
                (auctions[id].status = CANCELLED
                    /\ CancelAuction(t, id, auctions[id].seller_id))
                   => (ret'.err = "ok" /\ ret'.val = id /\ UNCHANGED tables)]_vars

Holders == {c \in LockClients : locks[c].acquired}

\* C16: lock mutual exclusion.  While no key expires, a lock object becomes
\* holder only by an acquire that found the key absent and returned true, at
\* most one lock object is holder at any time and the key then carries its
\* value; an acquire that met a coordinator error returns false and makes no
\* holder.
C16_MutualExclusion ==
    /\ [](Cardinality(Holders) <= 1 /\ \A c \in Holders : redis.value = LockValue(c))
    /\ [][\A c \in LockClients :
             /\ (locks'[c].acquired /\ ~locks[c].acquired) =>
                   (redis.value = 0 /\ ret' = LockRet("acquire", c, "ok", 1))
             /\ \A f \in Faults \ {"none"} : \A to \in BOOLEAN :
                   ((\E b \in BOOLEAN : Acquire(c, b, f, to)) \/ AcquireRetry(c, f, to))
                      => (ret'.val = 0 /\ locks'[c].acquired = locks[c].acquired)]_vars

\* One lock object holds the key and the acquire of another returned false.
C16_Witness ==
    /\ ret.op = "acquire"
    /\ ret.val = 0
    /\ \E c \in Holders : c # ret.arg /\ redis.value = LockValue(c)

\* The lease of c ran out and another lock object has acquired the key.
LeaseLost(c) == locks[c].acquired /\ redis.value \notin {0, LockValue(c)}

\* What release and extend may do to the key.
OwnLeaseOnly(c) ==
    /\ \A f \in Faults :
          (Release(c, f) /\ redis' # redis) =>
             (redis.value = LockValue(c) /\ redis' = NoKey)
    /\ \A f \in Faults : \A a \in ExtraTtls :
          (Extend(c, a, f) /\ redis' # redis) =>
             (redis.value = LockValue(c) /\ redis' = [redis EXCEPT !.ttl = NewTtl(a)])

C18_RefreshRotation ==
    [][\A t \in Presentable :
          /\ (refresh_access_token(t) /\ ret'.err = "ok") =>
                /\ ret'.val \in tokens'
                /\ ret'.val.type = "refresh"
                /\ ret'.val.sub = t.sub
                /\ ret'.val.role = t.role
                /\ ret'.val.family = t.family
          /\ (refresh_access_token(t) /\ \E h \in refreshed : h.old = t /\ h.new # t)
                => ret'.err # "ok"]_vars

\* C19: token type separation.  get_current_user_info answers with the
\* claims only for a token signed with the server's key, not expired, of type
\* access; refresh_access_token grants only for one signed with the server's
\* key, not expired, of type refresh.
C19_TokenTypeSeparation ==
    [][\A t \in Presentable :
          /\ (get_current_user_info(t) /\ ret'.err = "ok") =>
                /\ t.key = JWT_SECRET_KEY
                /\ t.exp >= now
                /\ t.type = "access"
                /\ ret'.val.sub = t.sub /\ ret'.val.role = t.role
          /\ (refresh_access_token(t) /\ ret'.err = "ok") =>
                /\ t.key = JWT_SECRET_KEY
                /\ t.exp >= now
                /\ t.type = "refresh"]_vars

\* A refresh token the server issued, not expired, was presented where an
\* access token is required and was turned down.
C19_Witness ==
    /\ ret.op = "get_current_user_info"
    /\ ret.err = "INVALID_TOKEN"
    /\ ret.arg \in tokens
    /\ ret.arg.type = "refresh"
    /\ ret.arg.exp >= now

Delivered(b) == [i \in 1..Len(b.calls) |-> b.calls[i].callback]

\* This step is the return of emit to its caller.
EmitEnds ==
    \/ \E e \in EventNames : EmitBegin(e) /\ bus'.pc = "idle"
    \/ \E o \in Outcomes : EmitCall(o) /\ bus'.pc = "idle"

Ended(kind, id) ==
    /\ RowExists(DB, kind, id)
    /\ (Table(DB, kind)[id].status # ACTIVE \/ Table(DB, kind)[id].end_time <= now)

\* C22: bids are refused on non-active targets.  A placeBid or placeLotBid
\* that reaches its target when the status is not ACTIVE or end_time <= now,
\* the instant end_time = now included, fails there with NOT_ACTIVE and
\* changes nothing.
C22_RefusedWhenNotActive ==
    [][\A t \in Txns :
          /\ (BidLockTarget(t) /\ Ended(txn[t].kind, txn[t].id))
                => (ret'.err = "NOT_ACTIVE" /\ txn'[t] = Idle /\ UNCHANGED tables)
          /\ \A k \in Kinds : \A id \in DOMAIN Table(DB, k) :
             \A u \in Users : \A m \in Amounts :
                (BidBegin(t, k, id, u, m, 0) /\ Ended(k, id))
                   => (ret'.err = "NOT_ACTIVE" /\ txn'[t] = Idle
                          /\ UNCHANGED tables)]_vars

\* The kind of target a Bid row is on.
KindOf(b) == IF b.auction_id # 0 THEN "auction" ELSE "lot"

\* C23: effects of an accepted bid.  The step that records a bid of b for amt
\* on a target sets its current_price to amt and its winner_id to b, raises
\* b's reserved by exactly amt, lowers by exactly the amount of the previous
\* highest bid the reserved of its bidder p when p is another user, and
\* changes no balance and no other user's reserved.
C23_AcceptedBidEffects ==
    [][Len(bids') = Len(bids) + 1 =>
          LET b == bids'[Len(bids')]
              id == TargetOf(b, KindOf(b))
              old == BidsOf(bids, KindOf(b), id)
              p == IF old = {} THEN 0
                   ELSE bids[CHOOSE i \in old : bids[i].amount = MaxBidOf(bids, KindOf(b), id)]
                           .bidder_id
          IN  /\ Table([DB EXCEPT !.auctions = auctions', !.lots = lots'],
                       KindOf(b))[id].current_price = b.amount
              /\ Table([DB EXCEPT !.auctions = auctions', !.lots = lots'],
                       KindOf(b))[id].winner_id = b.bidder_id
              /\ \A u \in Users :
                    /\ users'[u].balance = users[u].balance
                    /\ users'[u].reserved =
                          IF u = b.bidder_id THEN users[u].reserved + b.amount
                          ELSE IF u = p
                               THEN users[u].reserved - MaxBidOf(bids, KindOf(b), id)
                          ELSE users[u].reserved]_vars

\* A bidder was outbid by another: the reservation of the first is released
\* and the second holds exactly the amount of the bid.
C23_Witness ==
    /\ ret.op = "place_bid"
    /\ ret.err = "ok"
    /\ \E i \in DOMAIN bids :
          /\ i < Len(bids)
          /\ TargetOf(bids[i], KindOf(bids[Len(bids)]))
                = TargetOf(bids[Len(bids)], KindOf(bids[Len(bids)]))
          /\ bids[i].bidder_id # bids[Len(bids)].bidder_id
          /\ users[bids[i].bidder_id].reserved = 0
          /\ users[bids[Len(bids)].bidder_id].reserved = bids[Len(bids)].amount

\* The bid recorded last on a target: its id, 0 for none.
LastBid(kind, id) ==
    IF BidsOf(bids, kind, id) = {} THEN 0
    ELSE CHOOSE i \in BidsOf(bids, kind, id) : \A j \in BidsOf(bids, kind, id) : j <= i

\* C24: bid acceptance is totally ordered per target.  The lock of a target
\* row is held by one transaction at a time; the bids recorded on a target
\* have strictly increasing amounts in the order they were accepted, each
\* above the current_price it found, so no two of the same amount are both
\* accepted; and current_price and winner_id are those of the bid accepted
\* last.
C24_BidsTotallyOrdered ==
    /\ [](/\ \A t1 \in Txns : \A t2 \in Txns \ {t1} : txn[t1].held \cap txn[t2].held = {}
          /\ \A k \in Kinds : \A id \in DOMAIN Table(DB, k) :
                /\ \A i \in BidsOf(bids, k, id) : \A j \in BidsOf(bids, k, id) :
                      i < j => bids[i].amount < bids[j].amount
                /\ LastBid(k, id) # 0 =>
                      /\ Table(DB, k)[id].current_price = bids[LastBid(k, id)].amount
                      /\ Table(DB, k)[id].winner_id = bids[LastBid(k, id)].bidder_id)
    /\ [][Len(bids') = Len(bids) + 1 =>
             LET b == bids'[Len(bids')] IN
             /\ b.amount > Table(DB, KindOf(b))[TargetOf(b, KindOf(b))].current_price
             /\ \E t \in Txns : /\ Row(KindOf(b), TargetOf(b, KindOf(b)), 0) \in txn[t].held
                                /\ txn'[t] = Idle]_vars

\* A bid was accepted while a concurrent bid of the same amount on the same
\* target is still on its way to the row lock.
C24_Witness ==
    /\ ret.op = "place_bid"
    /\ ret.err = "ok"
    /\ bids # <<>>
    /\ \E t \in Txns :
          /\ txn[t].op = "place_bid"
          /\ txn[t].pc = "lock_target"
          /\ txn[t].kind = KindOf(bids[Len(bids)])
          /\ txn[t].id = TargetOf(bids[Len(bids)], txn[t].kind)
          /\ txn[t].amount = bids[Len(bids)].amount

\* C25: a failed close leaves the auction ACTIVE.  A closeAuction or closeLot
\* that fails changes no table, so the row is still ACTIVE; a close that
\* fails inside a sweep leaves its auction as it was; and the sweep pass that
\* begins after a failed close selects every ACTIVE row, auction or lot, whose
\* end_time has come and that no transaction has locked.
C25_FailedCloseStaysActive ==
    [][\A t \in Txns :
          /\ (Returns(t, "close") /\ ret'.err # "ok") => UNCHANGED tables
          /\ SweepCommit(t) =>
                \A i \in DOMAIN txn[t].batch :
                   \/ auctions'[txn[t].batch[i]].status = FINISHED
                   \/ auctions'[txn[t].batch[i]] = auctions[txn[t].batch[i]]
          /\ (ret.op = "close" /\ ret.err \notin {"ok", "NOT_FOUND"} /\ SweepBegin(t)) =>
                \A k \in Kinds : \A id \in DOMAIN Table(DB, k) :
                   (RowExists(DB, k, id) /\ Table(DB, k)[id].status = ACTIVE
                       /\ Table(DB, k)[id].end_time <= now /\ Free(t, Row(k, id, 0)))
                      => (k = "auction"
                            /\ \E i \in DOMAIN txn'[t].batch : txn'[t].batch[i] = id)]_vars

\* The place of a row in the global lock order: the Auction or Lot row, then
\* the Hero, then the Users, then the Stash rows.
LockRank(r) ==
    IF r[1] \in {"auction", "lot"} THEN 1
    ELSE IF r[1] = "hero" THEN 2
    ELSE IF r[1] = "user" THEN 3
    ELSE 4

\* Row h may be locked before row r: a lower rank, or two user rows in
\* ascending id; rows of one rank that are not users are not ordered.
LockedBefore(h, r) ==
    \/ LockRank(h) < LockRank(r)
    \/ /\ LockRank(h) = LockRank(r)
       /\ r[1] = "user" => h[2] < r[2]

\* C26: the global row-lock order.  Every row a transaction locks comes
\* after every row it already holds: Auction/Lot, Hero, Users in ascending
\* id, Stash rows.  The seller's row a close locks last and the previous
\* bidder's row a placeBid locks last come after the user rows held.
C26_GlobalLockOrder ==
    [][\A t \in Txns :
          /\ \A r \in txn'[t].held \ txn[t].held :
                \A h \in txn[t].held : LockedBefore(h, r)
          /\ CloseLockSeller(t) =>
                \A h \in txn[t].held :
                   LockedBefore(h, Row("user",
                                       Table(DB, txn[t].kind)[txn[t].id].seller_id, 0))
          /\ BidLockPrev(t) =>
                \A h \in txn[t].held :
                   LockedBefore(h, Row("user", txn[t].hb_bidder, 0))]_vars

\* C27: the sweeper runs under the sweep lock.  An instance that is in the
\* sweep body has acquired dist_lock:auction_sweep and the key carries its
\* value, and no two instances are in the sweep body at the same time.
C27_SweepUnderLock ==
    /\ \A i \in SweeperInstances :
          InSweepBody(i) => (locks[i].acquired /\ redis.value = LockValue(i))
    /\ \A i \in SweeperInstances : \A j \in SweeperInstances \ {i} :
          ~(InSweepBody(i) /\ InSweepBody(j))

\* C28: the sweeper never dies.  Whatever raises in an iteration, no
\* instance of the task ends: each is asleep or in its sweep body.
C28_SweeperNeverDies ==
    \A i \in SweeperInstances : sweeper[i].pc # "dead"

\* C29: auto-renewal.  A turn of the renewal task of a lock that is held
\* calls extend: if extend succeeds the task sleeps again and the TTL is the
\* lock's; on a failing extend, by mismatch or by coordinator error, the
\* object is no longer marked as holder and the task has stopped.  A release
\* of a held lock leaves no renewal task running.
C29_AutoRenewal ==
    [][\A c \in LockClients : \A f \in Faults :
          /\ (locks[c].acquired /\ RenewLoop(c, f)) =>
                IF ret'.err = "ok"
                THEN /\ locks'[c].acquired
                     /\ locks'[c].renewal = "sleeping"
                     /\ redis' = [redis EXCEPT !.ttl = LockTtl]
                ELSE /\ ~locks'[c].acquired
                     /\ locks'[c].renewal # "sleeping"
          /\ (locks[c].acquired /\ Release(c, f)) => locks'[c].renewal = "none"]_vars

\* C30: bids and ledger rows are append-only.  In every step each Bid row
\* that exists is still there and unchanged, so the Bid rows of an auction or
\* lot only grow, and every ledger row is still in the ledger, so the ledger
\* rows of a user only grow.
C30_AppendOnly ==
    [][/\ \A i \in DOMAIN bids :
             bids[i].exists => (i \in DOMAIN bids' /\ bids'[i] = bids[i])
       /\ ledger \sqsubseteq ledger']_vars

\* The AutoBid row of user u on the target, as set_auto_bid looks it up.
AutoBidOf(ab, u, kind, id) ==
    FindAutoBid(ab, u, IF kind = "auction" THEN id ELSE 0,
                IF kind = "lot" THEN id ELSE 0)

\* C31: auto-bid reservation.  There is at most one AutoBid row per (user,
\* target); a setAutoBid that creates the row raises the user's reserved by
\* max_amount, and one that updates it from m to m' changes the reserved by
\* m' - m and sets max_amount to m'; no other row and no other user changes.
C31_AutoBidReservation ==
    /\ [](\A i \in DOMAIN autobids : \A j \in DOMAIN autobids :
             (/\ autobids[i].user_id = autobids[j].user_id
              /\ autobids[i].auction_id = autobids[j].auction_id
              /\ autobids[i].lot_id = autobids[j].lot_id) => i = j)
    /\ [][\A t \in Txns, u \in Users, k \in Kinds, m \in BidAmounts :
             (SetAutoBid(t, u, k, 1, m) /\ ret'.err = "ok") =>
                LET i == AutoBidOf(autobids, u, k, 1) IN
                /\ \A o \in Users \ {u} : users'[o] = users[o]
                /\ users'[u].balance = users[u].balance
                /\ IF i = 0
                   THEN /\ Len(autobids') = Len(autobids) + 1
                        /\ SubSeq(autobids', 1, Len(autobids)) = autobids
                        /\ AutoBidOf(autobids', u, k, 1) = Len(autobids')
                        /\ autobids'[Len(autobids')].max_amount = m
                        /\ users'[u].reserved = users[u].reserved + m
                   ELSE /\ autobids' = [autobids EXCEPT ![i].max_amount = m]
                        /\ users'[u].reserved =
                              users[u].reserved + m - autobids[i].max_amount]_vars

\* A user lowered an auto-bid: the last setAutoBid succeeded, the row holds
\* the new maximum and the ledger has the release of the difference.
C31_Witness ==
    /\ ret.op = "set_auto_bid"
    /\ ret.err = "ok"
    /\ \E r \in DOMAIN ledger :
          /\ r.type = "autobid_reserve_update"
          /\ r.amount < 0
          /\ \E i \in DOMAIN autobids :
                /\ autobids[i].user_id = r.user_id
                /\ users[r.user_id].reserved = autobids[i].max_amount
                /\ ret.val = i

\* C32: glob invalidation.  Handling cache_invalidate with a key that ends
\* in * removes every entry whose key starts with the prefix and no other,
\* and with any other key removes exactly that entry; so after the handling
\* of auctions:active* no listing that starts with auctions:active is left.
C32_GlobInvalidation ==
    [][\A p \in Patterns :
          InvalidateHandler(p) =>
             /\ cache'.store = cache.store \ Matching(cache.store, p)
             /\ (p.glob /\ p.prefix = <<"auctions:active">>) =>
                   \A k \in cache'.store : ~StartsWith(k, <<"auctions:active">>)]_vars

RECURSIVE SumOver(_, _)
SumOver(S, f) ==
    IF S = {} THEN 0
    ELSE LET x == CHOOSE y \in S : TRUE IN f[x] + SumOver(S \ {x}, f)

\* The units of an item there are: in the stashes and in the ACTIVE auctions.
ItemTotal(st, au, item_id) ==
    SumOver(Users, [u \in Users |-> st[u][item_id]])
    + SumOver({a \in DOMAIN au : au[a].item_id = item_id /\ au[a].status = ACTIVE},
              [a \in DOMAIN au |-> au[a].quantity])

Commitments(u) ==
    SumOver({a \in DOMAIN auctions :
                auctions[a].status = ACTIVE /\ auctions[a].winner_id = u},
            [a \in DOMAIN auctions |-> auctions[a].current_price])
    + SumOver({l \in DOMAIN lots :
                  lots[l].exists /\ lots[l].status = ACTIVE /\ lots[l].winner_id = u},
              [l \in DOMAIN lots |-> lots[l].current_price])
    + SumOver({i \in DOMAIN autobids : autobids[i].user_id = u},
              [i \in DOMAIN autobids |-> autobids[i].max_amount])

\* C34: reserved funds equal live commitments.  In every committed state the
\* reserved of each user is the sum of the prices of the ACTIVE auctions and
\* lots the user is winning and of the maxima of the user's auto-bids.
C34_ReservedEqualsCommitments ==
    \A u \in Users : users[u].reserved = Commitments(u)

\* The money the users have: the sum of their balances.
TotalBalance(us) == SumOver(Users, [u \in Users |-> us[u].balance])

\* C35: a close moves money, it does not create it.  A closeAuction or
\* closeLot that commits with a winning bid of amount A leaves the sum of
\* the balances as it was: the seller's balance rises by A and the winner's
\* falls by A.
C35_CloseMovesMoney ==
    [][\A t \in Txns :
          (CloseLockSeller(t) /\ ret'.err = "ok") =>
             LET winner == txn[t].hb_bidder
                 seller == Table(DB, txn[t].kind)[txn[t].id].seller_id
                 A == txn[t].hb_amount
             IN  /\ TotalBalance(users') = TotalBalance(users)
                 /\ users'[seller].balance = users[seller].balance + A
                 /\ users'[winner].balance = users[winner].balance - A]_vars

\* C36: concurrent retries of one bid charge once.  At most one Bid row has
\* a given request_id; the call that records it raises the reserved of the
\* bidder by the amount; and a call with that request_id that was already on
\* its way when the row was committed returns without changing any table.
C36_ConcurrentRetriesChargeOnce ==
    /\ [](\A r \in BidRequestIds \ {0} : Cardinality(RowsOfRequest(bids, r)) <= 1)
    /\ [][/\ Len(bids') = Len(bids) + 1 =>
                LET b == bids'[Len(bids')]
                IN  users'[b.bidder_id].reserved = users[b.bidder_id].reserved + b.amount
          /\ \A t \in Txns :
                (/\ Returns(t, "place_bid")
                 /\ txn[t].op = "place_bid"
                 /\ txn[t].rid # 0
                 /\ BidByRequest(bids, txn[t].rid) # 0)
                   => (ret'.err # "ok" /\ UNCHANGED tables)]_vars

\* Two calls with one request_id and the same parameters passed the look for
\* an earlier Bid together; the first has committed its row and the second,
\* still on its way to the row lock, will meet it.
C36_Witness ==
    /\ ret.op = "place_bid"
    /\ ret.err = "ok"
    /\ ret.arg # 0
    /\ \E i \in RowsOfRequest(bids, ret.arg) : \E t \in Txns :
          /\ ret.val = i
          /\ txn[t].op = "place_bid"
          /\ txn[t].pc = "lock_target"
          /\ txn[t].rid = ret.arg
          /\ txn[t].user = bids[i].bidder_id
          /\ txn[t].amount = bids[i].amount
          /\ txn[t].kind = KindOf(bids[i])
          /\ txn[t].id = TargetOf(bids[i], txn[t].kind)
          /\ users[bids[i].bidder_id].reserved = bids[i].amount

\* The bidder of the highest Bid committed on the target, 0 for none.
HighestBidder(kind, id) ==
    IF HighestBid(bids, kind, id) = 0 THEN 0
    ELSE bids[HighestBid(bids, kind, id)].bidder_id

\* C37: bid versus close race.  A Bid is committed only on a target that is
\* ACTIVE; the close that finishes a target names as winner the bidder of the
\* highest Bid committed by then; and when a close or a cancel has ended a
\* target, the reserved of each of its bidders is what that user has
\* committed elsewhere, so nobody holds a reservation for a bid on it that
\* the close did not take into account.
C37_BidCloseRace ==
    [][/\ Len(bids') = Len(bids) + 1 =>
             LET b == bids'[Len(bids')]
                 row == Table(DB, KindOf(b))[TargetOf(b, KindOf(b))]
             IN  row.status = ACTIVE
       /\ \A k \in Kinds : \A id \in DOMAIN Table(DB, k) :
             (/\ RowExists(DB, k, id)
              /\ Table(DB, k)[id].status = ACTIVE
              /\ IF k = "auction" THEN auctions'[id].status # ACTIVE
                 ELSE lots'[id].status # ACTIVE)
                => /\ (IF k = "auction" THEN auctions'[id] ELSE lots'[id]).winner_id
                         = HighestBidder(k, id)
                   /\ \A b \in BidsOf(bids, k, id) :
                         users'[bids[b].bidder_id].reserved
                            = Commitments(bids[b].bidder_id)']_vars

\* The rows the next statement of transaction t locks.
WaitsFor(t) ==
    LET r == txn[t] IN
    IF r.op = "place_bid" /\ r.pc = "lock_target" THEN {Row(r.kind, r.id, 0)}
    ELSE IF r.op = "place_bid" /\ r.pc = "lock_bidder" THEN {Row("user", r.user, 0)}
    ELSE IF r.op = "place_bid" /\ r.pc = "lock_prev" THEN {Row("user", r.hb_bidder, 0)}
    ELSE IF r.op = "close" /\ r.pc = "lock_hero"
       THEN {Row("hero", lots[r.id].hero_id, 0)}
    ELSE IF r.op = "close" /\ r.pc = "lock_winner" THEN {Row("user", r.hb_bidder, 0)}
    ELSE IF r.op = "close" /\ r.pc = "lock_seller"
       THEN {Row("user", Table(DB, r.kind)[r.id].seller_id, 0)}
    ELSE {}

\* C38: no deadlock between money transactions.  There is no set of
\* transactions each of which waits for a row that another one of the set
\* has locked.
C38_NoLockWaitCycle ==
    \A S \in SUBSET Txns :
       S # {} => \E t \in S : \A o \in S \ {t} : WaitsFor(t) \cap txn[o].held = {}

\* C39: the hero flag matches the lot state.  In every committed state
\* reached by createLot, deleteLot and closeLot, a hero is flagged
\* is_on_auction exactly when an ACTIVE lot exists for it.
C39_FlagMatchesLot ==
    \A h \in DOMAIN heroes :
       heroes[h].is_on_auction <=> ActiveLotExists(lots, h)

\* A hero listed again after its first lot was deleted.
C39_Witness ==
    /\ Len(lots) >= 2
    /\ ~lots[1].exists
    /\ \E h \in DOMAIN heroes : heroes[h].is_on_auction /\ ActiveLotExists(lots, h)

\* C40: a hero on auction stays as listed.  A hero gets an ACTIVE lot only
\* if it is owned by the seller, not deleted, not training, not dead, not on
\* auction and without equipped items; and while the lot is ACTIVE the hero
\* stays owned by the seller, not deleted, not training and without equipped
\* items.
C40_HeroStaysAsListed ==
    /\ [](\A l \in DOMAIN lots :
             (lots[l].exists /\ lots[l].status = ACTIVE)
                => LET h == heroes[lots[l].hero_id]
                   IN  /\ h.owner_id = lots[l].seller_id
                       /\ ~h.is_deleted
                       /\ ~h.is_training
                       /\ ~h.equipped)
    /\ [][Len(lots') > Len(lots) =>
             LET h == heroes[lots'[Len(lots')].hero_id]
             IN  /\ h.owner_id = lots'[Len(lots')].seller_id
                 /\ ~h.is_deleted
                 /\ ~h.is_training
                 /\ ~h.is_dead
                 /\ ~h.is_on_auction
                 /\ ~h.equipped]_vars

====
